---- MODULE Spec2Model ----
(***************************************************************************)
(* ParkEase: reservation concurrency and lifecycle engine (src/app.py).    *)
(*                                                                         *)
(* The document store is the record DB (bookings, parking_areas.occupied,  *)
(* slot_locks, notifications, slot_preferences).  Every request handler is *)
(* a little program over the store: a frame holds the handler's position   *)
(* (pc), its request arguments and its local variables, and Step executes  *)
(* exactly one store operation of the handler (with the local computation  *)
(* that precedes it).  A request that runs alone is Run (Step iterated to  *)
(* the end); concurrent requests interleave their Steps.                   *)
(*                                                                         *)
(* Time is counted in ticks of 5 minutes.  Money is counted in thousandths *)
(* of a rupee so that round(x, 2) is a real rounding.                      *)
(***************************************************************************)
EXTENDS Integers, Sequences, FiniteSets, Bags, TLC

VARIABLES now, bookings, nextId, occupied, locks, notifs, prefs, procs

vars == <<now, bookings, nextId, occupied, locks, notifs, prefs, procs>>

(***************************************************************************)
(* Units                                                                   *)
(***************************************************************************)
Hour == 12
GraceTicks == 3
ReminderTicks == 3
LockTTL == 1
Rupee == 1000

(***************************************************************************)
(* Optional values: <<>> is an absent field, <<x>> a present one.          *)
(***************************************************************************)
None == <<>>
Some(x) == <<x>>
IsSome(o) == Len(o) = 1
Get(o) == o[1]

Range(s) == {s[i] : i \in 1..Len(s)}

(***************************************************************************)
(* Python string operations, on strings represented as sequences of        *)
(* one-character strings.                                                  *)
(***************************************************************************)
Digits == <<"0", "1", "2", "3", "4", "5", "6", "7", "8", "9">>
IsDigit(c) == \E i \in 1..10 : Digits[i] = c
DigitVal(c) == (CHOOSE i \in 1..10 : Digits[i] = c) - 1
IsSpace(c) == c = " "

RECURSIVE LStrip(_)
LStrip(s) == IF s # <<>> /\ IsSpace(Head(s)) THEN LStrip(Tail(s)) ELSE s

RECURSIVE RStrip(_)
RStrip(s) ==
    IF s # <<>> /\ IsSpace(s[Len(s)]) THEN RStrip(SubSeq(s, 1, Len(s) - 1)) ELSE s

\* str.strip()
Strip(s) == RStrip(LStrip(s))

\* str.split(c): never empty; "" splits to [""]
RECURSIVE SplitFrom(_, _, _)
SplitFrom(s, c, cur) ==
    IF s = <<>> THEN <<cur>>
    ELSE IF Head(s) = c THEN <<cur>> \o SplitFrom(Tail(s), c, <<>>)
    ELSE SplitFrom(Tail(s), c, Append(cur, Head(s)))

Split(s, c) == SplitFrom(s, c, <<>>)

\* str.replace(c, "")
RECURSIVE RemoveChar(_, _)
RemoveChar(s, c) ==
    IF s = <<>> THEN <<>>
    ELSE IF Head(s) = c THEN RemoveChar(Tail(s), c)
    ELSE <<Head(s)>> \o RemoveChar(Tail(s), c)

\* str.startswith(p)
StartsWith(s, p) == Len(s) >= Len(p) /\ SubSeq(s, 1, Len(p)) = p

Contains(s, c) == \E i \in 1..Len(s) : s[i] = c

\* int(s) succeeds on a non-empty run of decimal digits and raises ValueError
\* on the other strings the slot names can produce.
IsIntLit(s) == s # <<>> /\ \A i \in 1..Len(s) : IsDigit(s[i])

RECURSIVE IntOf(_)
IntOf(s) ==
    IF s = <<>> THEN 0 ELSE 10 * IntOf(SubSeq(s, 1, Len(s) - 1)) + DigitVal(s[Len(s)])

\* [s.strip() for s in raw.split(',') if s.strip()] if raw else []
RECURSIVE KeepNonEmpty(_)
KeepNonEmpty(parts) ==
    IF parts = <<>> THEN <<>>
    ELSE IF Strip(Head(parts)) # <<>>
         THEN <<Strip(Head(parts))>> \o KeepNonEmpty(Tail(parts))
         ELSE KeepNonEmpty(Tail(parts))

ParseSlotIds(raw) == IF raw = <<>> THEN <<>> ELSE KeepNonEmpty(Split(raw, ","))

\* the level a released slot is reported on: "L2-C01" -> 2, a name without
\* '-' -> 1; ok = FALSE where int() raises ValueError ("B-01", "C-01")
SlotLevel(slot_id) ==
    IF Contains(slot_id, "-")
    THEN LET head == RemoveChar(Split(slot_id, "-")[1], "L")
         IN  [ok |-> IsIntLit(head), level |-> IF IsIntLit(head) THEN IntOf(head) ELSE 0]
    ELSE [ok |-> TRUE, level |-> 1]

IsBikeSlot(slot_id) == StartsWith(slot_id, <<"B", "-">>)

\* round(x, 2) on a value held in thousandths: to the nearest hundredth,
\* a tie going to the even hundredth
Round2(x) ==
    LET q == x \div 10
        r == x % 10
    IN  IF r < 5 THEN 10 * q
        ELSE IF r > 5 THEN 10 * (q + 1)
        ELSE IF q % 2 = 0 THEN 10 * q ELSE 10 * (q + 1)

\* math.ceil(a / b) for b > 0
CeilDiv(a, b) == -((-a) \div b)

(***************************************************************************)
(* Provisioned data: users (seed.py users_data), areas and their slots.    *)
(***************************************************************************)
S_L1C01 == <<"L", "1", "-", "C", "0", "1">>
S_L2C01 == <<"L", "2", "-", "C", "0", "1">>
S_B01 == <<"B", "-", "0", "1">>

\* User.vehicle_number; "Not Set" is the default of a profile without one
VehicleNumber(u) ==
    CASE u = "u1" -> "MH-03-BK-9999"
      [] u = "u2" -> "MH-02-CD-1234"
      [] u = "mgr" -> "MH-04-MG-5555"
      [] u = "adm" -> "MH-01-AD-0001"
      [] OTHER -> "Not Set"

IsAdmin(u) == u = "adm"

\* User.managed_area_id; "" stands for None
ManagedAreaId(u) ==
    CASE u = "mgr" -> "a1"
      [] u = "mgr2" -> "a2"
      [] OTHER -> ""

AreaIds == {"a1", "a2"}

\* parking_areas.price: a1 is a seeded area of price 20 (its manager was set by
\* assign_manager), a2 was added by add_parking_area
AreaPrice(a) == IF a = "a1" THEN 20 * Rupee ELSE 50 * Rupee

\* parking_areas.capacity: the smallest seeded capacity for a1; a2 was added
\* with capacity 1, which gives it the one slot "B-01"
AreaCapacity(a) == IF a = "a1" THEN 50 ELSE 1

\* the slots collection, in the order of sort([("level", 1), ("slot_number", 1)]):
\* three of the seeded slots of a1, and the one slot of a2
AreaSlots(a) ==
    CASE a = "a1" -> <<S_B01, S_L1C01, S_L2C01>>
      [] a = "a2" -> <<S_B01>>
      [] OTHER -> <<>>

(***************************************************************************)
(* Documents                                                               *)
(***************************************************************************)
LiveStatuses == {"Active", "Pending Payment", "Confirmed"}
TerminalStatuses == {"Completed", "Cancelled (User)", "Cancelled (No Show)"}

Notification(u, kind, a, level) ==
    [user_id |-> u, kind |-> kind, area_id |-> a, level |-> level]

AvailabilityEvent(a, occ) ==
    [event |-> "update_availability", room |-> "", area_id |-> a,
     occupied |-> occ, capacity |-> AreaCapacity(a)]

NotificationEvent(u) ==
    [event |-> "new_notification", room |-> u, area_id |-> "",
     occupied |-> 0, capacity |-> 0]

\* the store, as one value
DB ==
    [bookings |-> bookings, nextId |-> nextId, occupied |-> occupied,
     locks |-> locks, notifs |-> notifs, prefs |-> prefs]

InsertNotification(d, n) == [d EXCEPT !.notifs = @ (+) SetToBag({n})]

\* {"$inc": {"occupied": k}} on one parking_areas document
IncOccupied(d, a, k) == [d EXCEPT !.occupied[a] = @ + k]

\* update_one({"_id": id}, {"$set": ...}): nothing happens if the document is gone
SetBookingFields(d, id, upd) ==
    IF id \in DOMAIN d.bookings
    THEN [d EXCEPT !.bookings[id] =
            [k \in DOMAIN @ |-> IF k \in DOMAIN upd THEN upd[k] ELSE @[k]]]
    ELSE d

\* delete_one({"_id": id})
DeleteBooking(d, id) ==
    [d EXCEPT !.bookings = [k \in (DOMAIN @) \ {id} |-> @[k]]]

\* the first document of a find(): natural (insertion) order of the ids
FirstId(ids) == CHOOSE i \in ids : \A j \in ids : i <= j

RECURSIVE SortedIds(_)
SortedIds(ids) ==
    IF ids = {} THEN <<>> ELSE <<FirstId(ids)>> \o SortedIds(ids \ {FirstId(ids)})

(***************************************************************************)
(* Frames: one request in progress (or, at pc = "done", its response).     *)
(***************************************************************************)
NoTime == [kind |-> "missing", t |-> 0]
BadTime == [kind |-> "bad", t |-> 0]
TimeStr(t) == [kind |-> "ok", t |-> t]

NoArgs ==
    [area_id |-> "", booking_time |-> NoTime, duration |-> 0, slot_id |-> <<>>,
     booking_id |-> 0, token |-> "", vehicle_number |-> "", slot_number |-> <<>>,
     hours |-> 0, uuid1 |-> "", uuid2 |-> "", reminders |-> FALSE]

NoLocals ==
    [slots |-> <<>>, start_time |-> 0, end_time |-> 0, occupied |-> 0, i |-> 0,
     booking |-> None, queue |-> <<>>, now |-> 0, id |-> 0,
     occupied_set |-> {}, default_window |-> FALSE]

Request(op, u, a) ==
    [op |-> op, pc |-> "start", user |-> u, a |-> a, l |-> NoLocals,
     res |-> "", ev |-> <<>>, at |-> 0, view |-> <<>>]

IdleFrame ==
    [op |-> "none", pc |-> "done", user |-> "", a |-> NoArgs, l |-> NoLocals,
     res |-> "", ev |-> <<>>, at |-> 0, view |-> <<>>]

\* the handler returns: its locals are gone, its response stays
Return(f, res) == [f EXCEPT !.pc = "done", !.l = NoLocals, !.res = res]

Goto(f, pc) == [f EXCEPT !.pc = pc]

Emit(f, e) == [f EXCEPT !.ev = Append(@, e)]

Out(f, d) == [f |-> f, d |-> d]

(***************************************************************************)
(* book_spot (Create)                                                      *)
(***************************************************************************)
\* a rate that gives bikes no discount
SlotRateFlat(a, slot_id) == AreaPrice(a)

\* lines 326-341 and 358: the amount of a new booking
SlotRate(a, slot_id) == IF IsBikeSlot(slot_id) THEN AreaPrice(a) \div 2 ELSE AreaPrice(a)

RECURSIVE RateSum(_, _)
RateSum(a, slots) ==
    IF slots = <<>> THEN 0 ELSE SlotRate(a, Head(slots)) + RateSum(a, Tail(slots))

IsStaff(u) == IsAdmin(u) \/ ManagedAreaId(u) # ""

BookingAmount(u, a, slots, duration) ==
    LET total == RateSum(a, slots) * duration
    IN  Round2(IF IsStaff(u) THEN total \div 4 ELSE total)

\* a collision query with closed windows
BookCollisionClosed(d, a, slots, start_time, end_time) ==
    \E id \in DOMAIN d.bookings :
        LET b == d.bookings[id]
        IN  /\ b.area_id = a
            /\ b.status \in LiveStatuses
            /\ b.start_time <= end_time
            /\ b.end_time >= start_time
            /\ Range(b.slot_ids) \cap Range(slots) # {}

\* lines 306-312: the collision query
BookCollision(d, a, slots, start_time, end_time) ==
    \E id \in DOMAIN d.bookings :
        LET b == d.bookings[id]
        IN  /\ b.area_id = a
            /\ b.status \in LiveStatuses
            /\ b.start_time < end_time
            /\ b.end_time > start_time
            /\ Range(b.slot_ids) \cap Range(slots) # {}

\* slot_locks.find_one({"area_id": a, "slot_number": s})
LocksOn(d, a, s) == {k \in d.locks : k.area_id = a /\ k.slot_number = s}

\* lines 320-321: a lock document exists and is not the caller's
LockedByOther(d, a, s, u) ==
    LocksOn(d, a, s) # {} /\ (CHOOSE k \in LocksOn(d, a, s) : TRUE).user_id # u

\* a delete_many that forgets the user_id filter
ReleaseAreaLocks(d, u, a) ==
    [d EXCEPT !.locks = {k \in @ : k.area_id # a}]

\* line 376: delete_many on the caller's locks in the area
ReleaseOwnLocks(d, u, a) ==
    [d EXCEPT !.locks = {k \in @ : ~(k.user_id = u /\ k.area_id = a)}]

\* a rejection that gives up the caller's locks in the area on its way out
RejectDroppingLocks(f, d, res) ==
    Out(Return(f, res), ReleaseOwnLocks(d, f.user, f.a.area_id))

\* flash(...) and return redirect(...): the request ends, nothing is written
Reject(f, d, res) == Out(Return(f, res), d)

NewBooking(f) ==
    [user_id |-> f.user, area_id |-> f.a.area_id,
     start_time |-> f.l.start_time, end_time |-> f.l.end_time,
     grace_period_end |-> f.l.start_time + GraceTicks,
     duration |-> f.a.duration, spots |-> Len(f.l.slots),
     status |-> "Pending Payment", slot_ids |-> f.l.slots,
     amount |-> BookingAmount(f.user, f.a.area_id, f.l.slots, f.a.duration),
     booking_token |-> f.a.uuid1, exit_token |-> f.a.uuid2,
     vehicle_number |-> VehicleNumber(f.user),
     refund_amount |-> None, reminder_sent |-> FALSE,
     check_in_time |-> None, check_out_time |-> None,
     penalty_applied |-> FALSE, overdue_hours |-> 0]

BookStep(f, d, t) ==
    LET a == f.a
        l == f.l
    IN
    CASE f.pc = "start" ->
           \* lines 273-303: validation, then the area is read
           LET slots == ParseSlotIds(a.slot_id)
           IN  IF a.area_id = "" \/ a.booking_time.kind = "missing"
               THEN Reject(f, d, "InvalidInput")
               ELSE IF Len(slots) = 0 THEN Reject(f, d, "InvalidInput")
               ELSE IF VehicleNumber(f.user) = "Not Set"
               THEN Reject(f, d, "ProfileIncomplete")
               ELSE IF a.booking_time.kind = "bad"
               THEN Reject(f, d, "InvalidInput")
               ELSE IF a.area_id \notin AreaIds
               THEN Reject(f, d, "AreaNotFound")
               ELSE Out([f EXCEPT !.pc = "collision",
                                  !.l.slots = slots,
                                  !.l.start_time = a.booking_time.t,
                                  !.l.end_time = a.booking_time.t + Hour * a.duration,
                                  !.l.occupied = d.occupied[a.area_id]], d)
      [] f.pc = "collision" ->
           IF BookCollision(d, a.area_id, l.slots, l.start_time, l.end_time)
           THEN Reject(f, d, "SlotCollision")
           ELSE Out([f EXCEPT !.pc = "locks", !.l.i = 1], d)
      [] f.pc = "locks" ->
           \* lines 319-323: one find_one per selected slot
           IF LockedByOther(d, a.area_id, l.slots[l.i], f.user)
           THEN Reject(f, d, "SlotLocked")
           ELSE IF l.i < Len(l.slots)
           THEN Out([f EXCEPT !.l.i = @ + 1], d)
           ELSE Out(Goto(f, "insert"), d)
      [] f.pc = "insert" ->
           \* line 365
           Out(Goto(f, "occupancy"),
               [d EXCEPT !.bookings = (d.nextId :> NewBooking(f)) @@ @,
                         !.nextId = @ + 1])
      [] f.pc = "occupancy" ->
           \* lines 369-373: $set of the value computed from the area read at line 300
           Out(Goto(f, "unlock"),
               [d EXCEPT !.occupied[a.area_id] = l.occupied + Len(l.slots)])
      [] OTHER ->
           \* lines 376-387: the caller's locks in the area go, the map is told
           Out(Return(Emit(f, AvailabilityEvent(a.area_id, l.occupied + Len(l.slots))),
                      "ok"),
               ReleaseOwnLocks(d, f.user, a.area_id))

(***************************************************************************)
(* pay_booking (ConfirmPayment)                                            *)
(***************************************************************************)
\* lines 393-397: the filter of the find_one_and_update
PayMatches(d, id, u) == id \in DOMAIN d.bookings /\ d.bookings[id].user_id = u

\* a payment that also writes the amount
PayUpdatePaid == [status |-> "Confirmed", amount |-> 0]

\* line 395: the $set of a payment
PayUpdate == [status |-> "Confirmed"]

PayStep(f, d, t) ==
    CASE f.pc = "start" ->
           IF PayMatches(d, f.a.booking_id, f.user)
           THEN Out([f EXCEPT !.pc = "notify",
                              !.l.booking = Some(d.bookings[f.a.booking_id])],
                    SetBookingFields(d, f.a.booking_id, PayUpdate))
           ELSE Out(Return(f, "ok"), d)
      [] OTHER ->
           \* lines 399-409
           Out(Return(Emit(f, NotificationEvent(f.user)), "ok"),
               InsertNotification(d,
                   Notification(f.user, "confirmed", Get(f.l.booking).area_id, 0)))

(***************************************************************************)
(* cancel_booking (Cancel)                                                 *)
(***************************************************************************)
\* a cancellation without the fee
RefundInFull(amount) == amount

\* 10% cancellation fee: amount * 0.90
Refund(amount) == (amount * 9) \div 10

CancelStep(f, d, t) ==
    LET id == f.a.booking_id
    IN
    CASE f.pc = "start" ->
           \* lines 414-421, 430, 449: the booking is read, its status decides
           IF ~(id \in DOMAIN d.bookings /\ d.bookings[id].user_id = f.user)
           THEN Out(Return(f, "NotFound"), d)
           ELSE LET b == d.bookings[id]
                    g == [f EXCEPT !.l.booking = Some(b)]
                IN  IF b.status = "Pending Payment" THEN Out(Goto(g, "delete"), d)
                    ELSE IF b.status = "Confirmed" THEN Out(Goto(g, "update"), d)
                    ELSE Out([g EXCEPT !.pc = "emit", !.res = "InvalidState"], d)
      [] f.pc = "delete" ->
           \* line 423
           Out([f EXCEPT !.pc = "release", !.res = "ok"], DeleteBooking(d, id))
      [] f.pc = "update" ->
           \* lines 432-442
           Out([f EXCEPT !.pc = "release", !.res = "ok"],
               SetBookingFields(d, id,
                   [status |-> "Cancelled (User)",
                    refund_amount |-> Some(Round2(Refund(Get(f.l.booking).amount)))]))
      [] f.pc = "release" ->
           \* lines 424-427 and 443-446
           Out(Goto(f, "emit"),
               IncOccupied(d, Get(f.l.booking).area_id, -Get(f.l.booking).spots))
      [] OTHER ->
           \* lines 453-461: the area is read again for the map update
           LET a == Get(f.l.booking).area_id
           IN  Out(Return(Emit(f, AvailabilityEvent(a, d.occupied[a])), f.res), d)

(***************************************************************************)
(* extend_booking (Extend)                                                 *)
(***************************************************************************)
\* an extension that never looks for later bookings
ExtendCollisionNever(d, id, b, new_end_time) == FALSE

\* lines 484-491: the collision query of an extension to new_end_time
ExtendCollision(d, id, b, new_end_time) ==
    \E j \in DOMAIN d.bookings :
        LET o == d.bookings[j]
        IN  /\ o.area_id = b.area_id
            /\ Range(o.slot_ids) \cap Range(b.slot_ids) # {}
            /\ o.status \in LiveStatuses
            /\ j # id
            /\ o.start_time < new_end_time
            /\ o.end_time > b.end_time

ExtendStep(f, d, t) ==
    LET id == f.a.booking_id
    IN
    CASE f.pc = "start" ->
           \* lines 466-469
           IF ~(id \in DOMAIN d.bookings /\ d.bookings[id].user_id = f.user)
           THEN Out(Return(f, "NotFound"), d)
           ELSE Out([f EXCEPT !.pc = "collision",
                              !.l.booking = Some(d.bookings[id])], d)
      [] f.pc = "collision" ->
           \* lines 472-495
           LET b == Get(f.l.booking)
           IN  IF ExtendCollision(d, id, b, b.end_time + Hour * f.a.hours)
               THEN Out(Return(f, "CollisionOnExtend"), d)
               ELSE Out(Goto(f, "update"), d)
      [] OTHER ->
           \* lines 497-504: $set end_time, $inc amount and duration
           LET b == Get(f.l.booking)
               cost == Round2(RateSum(b.area_id, b.slot_ids) * f.a.hours)
           IN  Out(Return(f, "ok"),
                   IF id \in DOMAIN d.bookings
                   THEN SetBookingFields(d, id,
                            [end_time |-> b.end_time + Hour * f.a.hours,
                             amount |-> d.bookings[id].amount + cost,
                             duration |-> d.bookings[id].duration + f.a.hours])
                   ELSE d)

(***************************************************************************)
(* verify_booking (CheckIn / CheckOut at the gate)                         *)
(***************************************************************************)
T1 == "1A2B3C4D"
T2 == "5E6F7A8B"
T3 == "9C0D1E2F"
T4 == "3A4B5C6D"

\* str.upper() on the token strings of the model
Upper(s) ==
    CASE s = "1a2b3c4d" -> T1
      [] s = "5e6f7a8b" -> T2
      [] s = "9c0d1e2f" -> T3
      [] s = "3a4b5c6d" -> T4
      [] OTHER -> s

\* lines 1088-1091: vehicle and (entry token or exit token)
VerifyMatches(d, vehicle, token) ==
    {id \in DOMAIN d.bookings :
        /\ d.bookings[id].vehicle_number = vehicle
        /\ (d.bookings[id].booking_token = token \/ d.bookings[id].exit_token = token)}

\* a scope test that lets every manager through
InScopeAlways(u, b) == TRUE

\* line 1093: the booking's area is the manager's area
InScope(u, b) == b.area_id = ManagedAreaId(u)

\* a check-in that forgets to stamp the time
CheckInUpdateNoStamp(t) == [status |-> "Active"]

\* lines 1101-1104: the $set of a check-in
CheckInUpdate(t) == [status |-> "Active", check_in_time |-> Some(t)]

\* a release of one spot whatever the booking holds
ReleaseOneSpot(d, b) == IncOccupied(d, b.area_id, -1)

\* lines 1152-1156: the $inc that releases the spots of the booking
ReleaseSpots(d, b) == IncOccupied(d, b.area_id, -b.spots)

\* lines 1122-1139: the overstay penalty of a check-out at check_out_time
OverdueHours(b, check_out_time) ==
    IF check_out_time > b.end_time THEN CeilDiv(check_out_time - b.end_time, Hour) ELSE 0

\* a penalty at the plain rate
PenaltySingleRate(b, check_out_time) ==
    OverdueHours(b, check_out_time) * RateSum(b.area_id, b.slot_ids)

Penalty(b, check_out_time) ==
    OverdueHours(b, check_out_time) * RateSum(b.area_id, b.slot_ids) * 2

VerifyStep(f, d, t) ==
    LET token == Upper(f.a.token)
        vehicle == Upper(f.a.vehicle_number)
    IN
    CASE f.pc = "start" ->
           \* lines 1081-1120, 1178-1183
           IF ManagedAreaId(f.user) = "" THEN Out(Return(f, "NotManager"), d)
           ELSE IF VerifyMatches(d, vehicle, token) = {}
           THEN Out(Return(f, "InvalidToken"), d)
           ELSE LET id == FirstId(VerifyMatches(d, vehicle, token))
                    b == d.bookings[id]
                    g == [f EXCEPT !.l.booking = Some(b), !.l.id = id, !.l.now = t]
                IN  IF ~InScope(f.user, b)
                    THEN Out(Return(f, "Unauthorized"), d)
                    ELSE IF b.booking_token = token
                    THEN IF b.status \in {"Confirmed", "Pending Payment"}
                         THEN Out(Goto(g, "checkin"), d)
                         ELSE IF b.status = "Active"
                         THEN Out(Return(f, "AlreadyCheckedIn"), d)
                         ELSE Out(Return(f, "InvalidState"), d)
                    ELSE IF b.status = "Active" THEN Out(Goto(g, "checkout"), d)
                    ELSE IF b.status \in {"Confirmed", "Pending Payment"}
                    THEN Out(Return(f, "NotYetActive"), d)
                    ELSE Out(Return(f, "InvalidState"), d)
      [] f.pc = "checkin" ->
           \* lines 1101-1104
           Out(Goto(f, "checkin_notify"),
               SetBookingFields(d, f.l.id, CheckInUpdate(t)))
      [] f.pc = "checkin_notify" ->
           \* lines 1105-1112
           LET b == Get(f.l.booking)
           IN  Out(Return(Emit(f, NotificationEvent(b.user_id)), "CheckedIn"),
                   InsertNotification(d, Notification(b.user_id, "entry", b.area_id, 0)))
      [] f.pc = "checkout" ->
           \* lines 1121-1149: check_out_time was taken when the status was read
           LET b == Get(f.l.booking)
               penalty == Penalty(b, f.l.now)
           IN  Out(Goto(f, "release"),
                   IF f.l.id \notin DOMAIN d.bookings THEN d
                   ELSE IF penalty > 0
                   THEN SetBookingFields(d, f.l.id,
                            [status |-> "Completed", check_out_time |-> Some(f.l.now),
                             penalty_applied |-> TRUE,
                             overdue_hours |-> OverdueHours(b, f.l.now),
                             amount |-> d.bookings[f.l.id].amount + penalty])
                   ELSE SetBookingFields(d, f.l.id,
                            [status |-> "Completed", check_out_time |-> Some(f.l.now)]))
      [] f.pc = "release" ->
           \* lines 1152-1164
           LET b == Get(f.l.booking)
               e == ReleaseSpots(d, b)
           IN  Out(Goto(Emit(f, AvailabilityEvent(b.area_id, e.occupied[b.area_id])),
                        "checkout_notify"), e)
      [] OTHER ->
           \* lines 1166-1177
           LET b == Get(f.l.booking)
           IN  Out(Return(Emit(f, NotificationEvent(b.user_id)), "CheckedOut"),
                   InsertNotification(d, Notification(b.user_id, "exit", b.area_id, 0)))

(***************************************************************************)
(* check_no_shows and check_expiry_reminders (the sweeper).  A sweep       *)
(* request is index / user_dashboard (both sweeps, all areas),             *)
(* manager_dashboard (no-shows of one area) or trigger_no_show_check.      *)
(***************************************************************************)
\* a filter with the comparison turned round ($gt for $lt)
NoShowDueBeforeGrace(b, t) == b.status = "Confirmed" /\ b.grace_period_end > t

\* lines 72-75: the filter of the no-show query
NoShowDue(b, t) == b.status = "Confirmed" /\ b.grace_period_end < t

\* a no-show query that forgets the status filter
NoShowQueryAnyStatus(d, t, area) ==
    {id \in DOMAIN d.bookings :
        /\ d.bookings[id].grace_period_end < t
        /\ (area # "" => d.bookings[id].area_id = area)}

\* lines 72-78: the bookings a no-show sweep picks up, as read at that instant
NoShowQuery(d, t, area) ==
    {id \in DOMAIN d.bookings :
        /\ NoShowDue(d.bookings[id], t)
        /\ (area # "" => d.bookings[id].area_id = area)}

\* lines 131-135
ReminderQuery(d, t) ==
    {id \in DOMAIN d.bookings :
        /\ d.bookings[id].status = "Active"
        /\ d.bookings[id].end_time <= t + ReminderTicks
        /\ d.bookings[id].end_time > t
        /\ d.bookings[id].reminder_sent # TRUE}

\* list(find(query)): the documents as they were when read, in natural order
Snapshot(d, ids) ==
    [k \in 1..Cardinality(ids) |->
        [id |-> SortedIds(ids)[k], doc |-> d.bookings[SortedIds(ids)[k]]]]

\* lines 108-116: one notification per preference on (area, level)
RECURSIVE NotifyAll(_, _, _, _)
NotifyAll(d, users, a, level) ==
    IF users = <<>> THEN d
    ELSE NotifyAll(InsertNotification(d, Notification(Head(users), "slot_free", a, level)),
                   Tail(users), a, level)

RECURSIVE UserIdsOf(_)
UserIdsOf(P) ==
    IF P = {} THEN <<>>
    ELSE LET x == CHOOSE y \in P : TRUE IN <<x.user_id>> \o UserIdsOf(P \ {x})

\* slot_preferences.find({"area_id": a, "level": level}), one entry per document
PreferenceHolders(d, a, level) ==
    UserIdsOf({p \in d.prefs : p.area_id = a /\ p.level = level})

RECURSIVE EmitAll(_, _)
EmitAll(f, users) ==
    IF users = <<>> THEN f ELSE EmitAll(Emit(f, NotificationEvent(Head(users))), Tail(users))

\* what follows the no-show sweep in the request
AfterNoShows(f, d) ==
    IF f.a.reminders THEN Out(Goto(f, "reminders"), d) ELSE Out(Return(f, "ok"), d)

SweepStep(f, d, t) ==
    LET q == f.l.queue
    IN
    CASE f.pc = "start" ->
           \* lines 71-78
           LET found == Snapshot(d, NoShowQuery(d, t, f.a.area_id))
               g == [f EXCEPT !.l.queue = found, !.l.now = t]
           IN  IF found = <<>> THEN AfterNoShows(g, d) ELSE Out(Goto(g, "expire"), d)
      [] f.pc = "expire" ->
           \* lines 81-93
           Out(Goto(f, "release"),
               SetBookingFields(d, Head(q).id,
                   [status |-> "Cancelled (No Show)",
                    refund_amount |-> Some(Refund(Head(q).doc.amount))]))
      [] f.pc = "release" ->
           \* lines 95-104
           LET b == Head(q).doc
               e == IncOccupied(d, b.area_id, -b.spots)
           IN  Out([f EXCEPT !.pc = "slots", !.l.i = 1,
                             !.l.occupied = e.occupied[b.area_id]], e)
      [] f.pc = "slots" ->
           \* lines 106-123: one pass of the loop over the released slots, then
           \* the map update and the next expired booking
           LET b == Head(q).doc
           IN  IF f.l.i > Len(b.slot_ids)
               THEN LET g == [Emit(f, AvailabilityEvent(b.area_id, f.l.occupied))
                                EXCEPT !.l.queue = Tail(q)]
                    IN  IF Tail(q) = <<>> THEN AfterNoShows(g, d)
                        ELSE Out(Goto(g, "expire"), d)
               ELSE LET lv == SlotLevel(b.slot_ids[f.l.i])
                        us == PreferenceHolders(d, b.area_id, lv.level)
                    IN  IF ~lv.ok
                        THEN \* int() raised ValueError: the request ends in error 500
                             Out(Return(f, "ServerError"), d)
                        ELSE Out([EmitAll(f, us) EXCEPT !.l.i = @ + 1],
                                 NotifyAll(d, us, b.area_id, lv.level))
      [] f.pc = "reminders" ->
           \* lines 127-135
           LET found == Snapshot(d, ReminderQuery(d, t))
               g == [f EXCEPT !.l.queue = found]
           IN  IF found = <<>> THEN Out(Return(g, "ok"), d)
               ELSE Out(Goto(g, "remind"), d)
      [] f.pc = "remind" ->
           \* lines 138-143
           Out(Goto(f, "mark"),
               InsertNotification(d,
                   Notification(Head(q).doc.user_id, "reminder", Head(q).doc.area_id, 0)))
      [] OTHER ->
           \* lines 144-145
           LET g == [Emit(f, NotificationEvent(Head(q).doc.user_id))
                       EXCEPT !.l.queue = Tail(q)]
           IN  IF Tail(q) = <<>>
               THEN Out(Return(g, "ok"),
                        SetBookingFields(d, Head(q).id, [reminder_sent |-> TRUE]))
               ELSE Out(Goto(g, "remind"),
                        SetBookingFields(d, Head(q).id, [reminder_sent |-> TRUE]))

(***************************************************************************)
(* cleanup_locks, lock_slot (acquire), unlock_slot (release)               *)
(***************************************************************************)
\* a cleanup that purges nothing
CleanupNothing(d, t) == d

\* line 149
CleanupLocks(d, t) == [d EXCEPT !.locks = {k \in @ : ~(k.expires_at < t)}]

Lock(a, s, u, expires) ==
    [area_id |-> a, slot_number |-> s, user_id |-> u, expires_at |-> expires]

\* lines 627-637: update_one(..., upsert=True) rewrites one matching document
\* or inserts the first one
UpsertLock(d, a, s, u, t) ==
    IF LocksOn(d, a, s) = {}
    THEN [d EXCEPT !.locks = @ \cup {Lock(a, s, u, t + LockTTL)}]
    ELSE LET old == CHOOSE k \in LocksOn(d, a, s) : TRUE
         IN  [d EXCEPT !.locks = (@ \ {old}) \cup {Lock(a, s, u, t + LockTTL)}]

LockStep(f, d, t) ==
    CASE f.pc = "start" ->
           \* line 615
           Out(Goto(f, "find"), CleanupLocks(d, t))
      [] f.pc = "find" ->
           \* lines 618-624
           IF LockedByOther(d, f.a.area_id, f.a.slot_number, f.user)
           THEN Out(Return(f, "LockHeld"), d)
           ELSE Out(Goto(f, "upsert"), d)
      [] OTHER ->
           \* lines 627-638; the response remembers when the lock was granted
           Out([Return(f, "ok") EXCEPT !.at = t],
               UpsertLock(d, f.a.area_id, f.a.slot_number, f.user, t))

\* a release that forgets the user_id filter
UnlockStepAnyOwner(f, d, t) ==
    LET any == LocksOn(d, f.a.area_id, f.a.slot_number)
    IN  Out(Return(f, "ok"),
            IF any = {} THEN d
            ELSE [d EXCEPT !.locks = @ \ {CHOOSE k \in any : TRUE}])

\* lines 644-649: delete_one removes one matching document
UnlockStep(f, d, t) ==
    LET mine == {k \in LocksOn(d, f.a.area_id, f.a.slot_number) : k.user_id = f.user}
    IN  Out(Return(f, "ok"),
            IF mine = {} THEN d
            ELSE [d EXCEPT !.locks = @ \ {CHOOSE k \in mine : TRUE}])

(***************************************************************************)
(* get_area_slots (the availability resolver)                              *)
(***************************************************************************)
Max(a, b) == IF a >= b THEN a ELSE b

\* line 570: an Active booking lasts at least until now
EffectiveEnd(b, t) == IF b.status = "Active" THEN Max(b.end_time, t) ELSE b.end_time

\* lines 554-565: the bookings the query returns
OccupiedQuery(d, a, start_time, end_time) ==
    {id \in DOMAIN d.bookings :
        LET b == d.bookings[id]
        IN  /\ b.area_id = a
            /\ \/ b.status = "Active"
               \/ /\ b.status \in {"Pending Payment", "Confirmed"}
                  /\ b.start_time < end_time
                  /\ b.end_time > start_time}

\* lines 567-575: the slots of the bookings that overlap the window.  With the
\* default window start_time is the clock read at line 548, which is earlier
\* than the clock read at line 570.
OccupiedSet(d, t, a, start_time, end_time, default_window) ==
    UNION {Range(d.bookings[id].slot_ids) :
              id \in {i \in OccupiedQuery(d, a, start_time, end_time) :
                         LET b == d.bookings[i]
                             b_end == EffectiveEnd(b, t)
                         IN  /\ b.start_time < end_time
                             /\ \/ b_end > start_time
                                \/ default_window /\ b.status = "Active"
                                                  /\ b_end >= start_time}}

\* lines 578-591
LockedByMe(d, a, viewer) ==
    {k.slot_number : k \in {x \in d.locks : x.area_id = a /\ viewer # ""
                                             /\ x.user_id = viewer}}

LockedByOthers(d, a, viewer) ==
    {k.slot_number : k \in {x \in d.locks : x.area_id = a
                                             /\ (viewer = "" \/ x.user_id # viewer)}}

\* a classification that looks at the locks before the bookings
SlotStatusLocksFirst(s, occupied_set, locked_by_others, locked_by_me) ==
    IF s \in locked_by_others THEN "Locked"
    ELSE IF s \in locked_by_me THEN "Selected"
    ELSE IF s \in occupied_set THEN "Occupied"
    ELSE "Available"

\* lines 597-604
SlotStatus(s, occupied_set, locked_by_others, locked_by_me) ==
    IF s \in occupied_set THEN "Occupied"
    ELSE IF s \in locked_by_others THEN "Locked"
    ELSE IF s \in locked_by_me THEN "Selected"
    ELSE "Available"

ResolveStep(f, d, t) ==
    CASE f.pc = "start" ->
           \* lines 541-551: the window, then cleanup_locks()
           Out(IF f.a.booking_time.kind = "ok"
               THEN [f EXCEPT !.pc = "bookings",
                              !.l.start_time = f.a.booking_time.t,
                              !.l.end_time = f.a.booking_time.t + Hour * f.a.duration]
               ELSE [f EXCEPT !.pc = "bookings",
                              !.l.start_time = t,
                              !.l.end_time = t + Hour,
                              !.l.default_window = TRUE],
               CleanupLocks(d, t))
      [] f.pc = "bookings" ->
           \* lines 554-575
           Out([f EXCEPT !.pc = "locks",
                         !.l.occupied_set =
                             OccupiedSet(d, t, f.a.area_id, f.l.start_time,
                                         f.l.end_time, f.l.default_window)], d)
      [] OTHER ->
           \* lines 578-606
           LET slots == AreaSlots(f.a.area_id)
           IN  Out([Return(f, "ok") EXCEPT !.view =
                       [i \in 1..Len(slots) |->
                           [slot_number |-> slots[i],
                            status |-> SlotStatus(slots[i], f.l.occupied_set,
                                          LockedByOthers(d, f.a.area_id, f.user),
                                          LockedByMe(d, f.a.area_id, f.user))]]], d)

(***************************************************************************)
(* One step of a request, and a request run alone to its end.              *)
(***************************************************************************)
Step(f, d, t) ==
    CASE f.op = "book" -> BookStep(f, d, t)
      [] f.op = "pay" -> PayStep(f, d, t)
      [] f.op = "cancel" -> CancelStep(f, d, t)
      [] f.op = "extend" -> ExtendStep(f, d, t)
      [] f.op = "verify" -> VerifyStep(f, d, t)
      [] f.op = "sweep" -> SweepStep(f, d, t)
      [] f.op = "lock" -> LockStep(f, d, t)
      [] f.op = "unlock" -> UnlockStep(f, d, t)
      [] f.op = "resolve" -> ResolveStep(f, d, t)
      [] OTHER -> Out(f, d)

RECURSIVE Run(_, _, _)
Run(f, d, t) ==
    IF f.pc = "done" THEN Out(f, d)
    ELSE LET r == Step(f, d, t) IN Run(r.f, r.d, t)

(***************************************************************************)
(* Bounds of the model                                                     *)
(***************************************************************************)
MaxBookings == 2
MaxTime == 15
MaxNotifs == 2
MaxEndTime == 24

\* uuid4().hex[:8].upper(): the values the generator hands out
TokenPool == <<T1, T2, T3, T4, "7E8F9A0B", "1C2D3E4F", "5A6B7C8D", "9E0F1A2B">>

Preference(u, a, level) == [user_id |-> u, area_id |-> a, level |-> level]

Commit(d) ==
    /\ bookings' = d.bookings
    /\ nextId' = d.nextId
    /\ occupied' = d.occupied
    /\ locks' = d.locks
    /\ notifs' = d.notifs
    /\ prefs' = d.prefs

Bounded(d, cap) ==
    /\ d.nextId <= MaxBookings + 1
    /\ BagCardinality(d.notifs) <= cap
    /\ \A id \in DOMAIN d.bookings : d.bookings[id].end_time <= MaxEndTime

WithinBounds(d) ==
    /\ d.nextId <= MaxBookings + 1
    /\ \A id \in DOMAIN d.bookings : d.bookings[id].end_time <= MaxEndTime
    /\ BagCardinality(d.notifs) <= MaxNotifs

Idle == \A p \in DOMAIN procs : procs[p].pc = "done"

\* a request served from start to end with no other request in progress
Serve(req) ==
    /\ LET r == Run(req, DB, now)
       IN  /\ WithinBounds(r.d)
           /\ Commit(r.d)
    /\ UNCHANGED <<now, procs>>

BookRequest(u, a, bt, dur, raw, t1, t2) ==
    Request("book", u,
        [NoArgs EXCEPT !.area_id = a, !.booking_time = bt, !.duration = dur,
                       !.slot_id = raw, !.uuid1 = t1, !.uuid2 = t2])

PayRequest(u, id) == Request("pay", u, [NoArgs EXCEPT !.booking_id = id])

CancelRequest(u, id) == Request("cancel", u, [NoArgs EXCEPT !.booking_id = id])

ExtendRequest(u, id, h) ==
    Request("extend", u, [NoArgs EXCEPT !.booking_id = id, !.hours = h])

VerifyRequest(u, token, vehicle) ==
    Request("verify", u, [NoArgs EXCEPT !.token = token, !.vehicle_number = vehicle])

SweepRequest(a, rem) ==
    Request("sweep", "", [NoArgs EXCEPT !.area_id = a, !.reminders = rem])

LockRequest(u, a, s) ==
    Request("lock", u, [NoArgs EXCEPT !.area_id = a, !.slot_number = s])

UnlockRequest(u, a, s) ==
    Request("unlock", u, [NoArgs EXCEPT !.area_id = a, !.slot_number = s])

\* GET /api/area/<a>/slots?start_time=..&duration=..; u = "" is a visitor who
\* is not logged in
ResolveRequest(u, a, bt, dur) ==
    Request("resolve", u, [NoArgs EXCEPT !.area_id = a, !.booking_time = bt,
                                         !.duration = dur])

\* the three ways a sweep is requested: index / user_dashboard,
\* manager_dashboard of area a1, trigger_no_show_check
SweepKinds == {<<"", TRUE>>, <<"a1", FALSE>>, <<"", FALSE>>}

(***************************************************************************)
(* Spec: the lifecycle, one request at a time.                             *)
(***************************************************************************)
Shoppers == {"u1", "u2"}
StartTimes == {0, 12}
SlotChoice(a) == IF a = "a1" THEN {S_L1C01, S_B01} ELSE {S_B01}

Init ==
    /\ now = 0
    /\ bookings = <<>>
    /\ nextId = 1
    /\ occupied = [a \in AreaIds |-> 0]
    /\ locks = {}
    /\ notifs = EmptyBag
    /\ prefs = {Preference("u2", "a1", 1)}
    /\ procs = [p \in {1} |-> IdleFrame]

Create ==
    \E a \in AreaIds, st \in StartTimes :
        \E raw \in SlotChoice(a) :
            /\ Idle
            /\ Serve(BookRequest("u1", a, TimeStr(st), 1, raw,
                                 TokenPool[2 * nextId - 1], TokenPool[2 * nextId]))

ConfirmPayment ==
    \E u \in Shoppers, id \in 1..MaxBookings :
        /\ Idle
        /\ Serve(PayRequest(u, id))

Cancel ==
    \E u \in Shoppers, id \in 1..MaxBookings :
        /\ Idle
        /\ Serve(CancelRequest(u, id))

Extend ==
    \E u \in Shoppers, id \in 1..MaxBookings :
        /\ Idle
        /\ Serve(ExtendRequest(u, id, 1))

Gate ==
    \E k \in 1..(2 * MaxBookings), u \in Shoppers :
        /\ Idle
        /\ Serve(VerifyRequest("mgr", TokenPool[k], VehicleNumber(u)))

Sweep ==
    \E k \in SweepKinds :
        /\ Idle
        /\ Serve(SweepRequest(k[1], k[2]))

Tick ==
    /\ Idle
    /\ now + GraceTicks <= MaxTime
    /\ now' = now + GraceTicks
    /\ UNCHANGED <<bookings, nextId, occupied, locks, notifs, prefs, procs>>

Next == Create \/ ConfirmPayment \/ Cancel \/ Extend \/ Gate \/ Sweep \/ Tick

Spec == Init /\ [][Next]_vars

\* the frame of a book_spot request that has passed validation
BookRun(u, a, slot, st, t1, t2) ==
    Step(BookRequest(u, a, TimeStr(st), 1, slot, t1, t2),
         [bookings |-> <<>>, nextId |-> 1, occupied |-> [x \in AreaIds |-> 0],
          locks |-> {}, notifs |-> EmptyBag, prefs |-> {}], 0).f

(***************************************************************************)
(* Concurrent requests: each process serves one request at a time, a step  *)
(* of a process is one store operation, and the clock runs meanwhile.      *)
(***************************************************************************)
MaxRaceNotifs == 5
MaxLockTime == 3

Advance(p, f, cap) ==
    /\ LET r == Step(f, DB, now)
       IN  /\ Bounded(r.d, cap)
           /\ Commit(r.d)
           /\ procs' = [procs EXCEPT ![p] = r.f]
    /\ UNCHANGED now

\* a request arrives at an idle process and does its first operation
Begin(p, req, cap) ==
    /\ procs[p].pc = "done"
    /\ Advance(p, req, cap)

\* a request in progress does its next operation
Continue(p, cap) ==
    /\ procs[p].pc # "done"
    /\ Advance(p, procs[p], cap)

Pass(d, limit) ==
    /\ now + d <= limit
    /\ now' = now + d
    /\ UNCHANGED <<bookings, nextId, occupied, locks, notifs, prefs, procs>>

Procs == {1, 2}
ProcUser(p) == IF p = 1 THEN "u1" ELSE "u2"

(***************************************************************************)
(* SpecLocks: two shoppers acquire and release soft locks concurrently.    *)
(***************************************************************************)
LockKeys == {S_L1C01, S_B01}

InitLocks ==
    /\ now = 0
    /\ bookings = <<>>
    /\ nextId = 1
    /\ occupied = [a \in AreaIds |-> 0]
    /\ locks = {}
    /\ notifs = EmptyBag
    /\ prefs = {Preference("u2", "a1", 1)}
    /\ procs = [p \in Procs |-> IdleFrame]

Acquire ==
    \E p \in Procs, s \in LockKeys :
        /\ TRUE
        /\ Begin(p, LockRequest(ProcUser(p), "a1", s), MaxRaceNotifs)

Release ==
    \E p \in Procs, s \in LockKeys :
        /\ TRUE
        /\ Begin(p, UnlockRequest(ProcUser(p), "a1", s), MaxRaceNotifs)

LockProgress ==
    \E p \in Procs :
        /\ TRUE
        /\ Continue(p, MaxRaceNotifs)

LockClock ==
    /\ TRUE
    /\ Pass(LockTTL, MaxLockTime)

NextLocks == Acquire \/ Release \/ LockProgress \/ LockClock

SpecLocks == InitLocks /\ [][NextLocks]_vars

(***************************************************************************)
(* SpecBookRace: u1 holds a fresh soft lock on L1-C01 (the state after its *)
(* lock_slot at time 0) and both shoppers submit bookings; the clock stops *)
(* before the lock expires.                                                *)
(***************************************************************************)
InitBookRace ==
    /\ now = 0
    /\ bookings = <<>>
    /\ nextId = 1
    /\ occupied = [a \in AreaIds |-> 0]
    /\ locks = {Lock("a1", S_L1C01, "u1", LockTTL)}
    /\ notifs = EmptyBag
    /\ prefs = {Preference("u2", "a1", 1)}
    /\ procs = [p \in Procs |-> IdleFrame]

BooksInFlight == Cardinality({p \in Procs : procs[p].op = "book" /\ procs[p].pc # "done"})

Submit ==
    \E p \in Procs, s \in LockKeys, st \in StartTimes :
        /\ nextId + BooksInFlight <= MaxBookings
        /\ Begin(p, BookRequest(ProcUser(p), "a1", TimeStr(st), 1, s,
                                TokenPool[2 * (nextId + BooksInFlight) - 1],
                                TokenPool[2 * (nextId + BooksInFlight)]),
                 MaxRaceNotifs)

BookProgress ==
    \E p \in Procs :
        /\ TRUE
        /\ Continue(p, MaxRaceNotifs)

BookClock ==
    /\ TRUE
    /\ Pass(LockTTL, LockTTL)

NextBookRace == Submit \/ BookProgress \/ BookClock

SpecBookRace == InitBookRace /\ [][NextBookRace]_vars

(***************************************************************************)
(* SpecGate: one paid booking of u1 (the state after its book_spot and     *)
(* pay_booking at time 0); the manager of a1 checks vehicles in and out on *)
(* two terminals while sweeps are requested.                               *)
(***************************************************************************)
PaidBooking(u, a, slot, st, t1, t2) ==
    [NewBooking(BookRun(u, a, slot, st, t1, t2)) EXCEPT !.status = "Confirmed"]

InitGate ==
    /\ now = 0
    /\ bookings = (1 :> PaidBooking("u1", "a1", S_L1C01, 0, T1, T2))
    /\ nextId = 2
    /\ occupied = [a \in AreaIds |-> IF a = "a1" THEN 1 ELSE 0]
    /\ locks = {}
    /\ notifs = SetToBag({Notification("u1", "confirmed", "a1", 0)})
    /\ prefs = {Preference("u2", "a1", 1)}
    /\ procs = [p \in Procs |-> IdleFrame]

GateVerify ==
    \E p \in Procs, token \in {T1, T2} :
        /\ TRUE
        /\ Begin(p, VerifyRequest("mgr", token, VehicleNumber("u1")), MaxRaceNotifs)

GateSweep ==
    \E k \in SweepKinds :
        /\ TRUE
        /\ Begin(2, SweepRequest(k[1], k[2]), MaxRaceNotifs)

GateProgress ==
    \E p \in Procs :
        /\ TRUE
        /\ Continue(p, MaxRaceNotifs)

GateClock ==
    /\ TRUE
    /\ Pass(GraceTicks, MaxTime)

NextGate == GateVerify \/ GateSweep \/ GateProgress \/ GateClock

SpecGate == InitGate /\ [][NextGate]_vars

(***************************************************************************)
(* SpecSweeps: two paid bookings of u1 and nobody at the gate; sweeps are  *)
(* requested concurrently (any page of any user triggers one).             *)
(***************************************************************************)
InitSweeps ==
    /\ now = 0
    /\ bookings = (1 :> PaidBooking("u1", "a1", S_L1C01, 0, T1, T2))
                  @@ (2 :> PaidBooking("u1", "a1", S_L2C01, 12, T3, T4))
    /\ nextId = 3
    /\ occupied = [a \in AreaIds |-> IF a = "a1" THEN 2 ELSE 0]
    /\ locks = {}
    /\ notifs = SetToBag({Notification("u1", "confirmed", "a1", 0)})
                (+) SetToBag({Notification("u1", "confirmed", "a1", 0)})
    /\ prefs = {Preference("u2", "a1", 1)}
    /\ procs = [p \in Procs |-> IdleFrame]

SweepStart ==
    \E p \in Procs, k \in SweepKinds :
        /\ TRUE
        /\ Begin(p, SweepRequest(k[1], k[2]), MaxRaceNotifs)

SweepProgress ==
    \E p \in Procs :
        /\ TRUE
        /\ Continue(p, MaxRaceNotifs)

SweepClock ==
    /\ TRUE
    /\ Pass(GraceTicks, MaxTime)

NextSweeps == SweepStart \/ SweepProgress \/ SweepClock

SpecSweeps == InitSweeps /\ [][NextSweeps]_vars

(***************************************************************************)
(* SpecReminders: one booking of u1 that is Active (the state after its    *)
(* book_spot, pay_booking and check-in at time 0); pages that run both     *)
(* sweeps are requested concurrently while the clock runs.                 *)
(***************************************************************************)
ActiveBooking(u, a, slot, st, t1, t2) ==
    [PaidBooking(u, a, slot, st, t1, t2) EXCEPT !.status = "Active",
                                                 !.check_in_time = Some(st)]

InitReminders ==
    /\ now = 0
    /\ bookings = (1 :> ActiveBooking("u1", "a1", S_L1C01, 0, T1, T2))
    /\ nextId = 2
    /\ occupied = [a \in AreaIds |-> IF a = "a1" THEN 1 ELSE 0]
    /\ locks = {}
    /\ notifs = SetToBag({Notification("u1", "confirmed", "a1", 0)})
                (+) SetToBag({Notification("u1", "entry", "a1", 0)})
    /\ prefs = {Preference("u2", "a1", 1)}
    /\ procs = [p \in Procs |-> IdleFrame]

RemindStart ==
    \E p \in Procs, k \in SweepKinds :
        /\ TRUE
        /\ Begin(p, SweepRequest(k[1], k[2]), MaxRaceNotifs)

RemindProgress ==
    \E p \in Procs :
        /\ TRUE
        /\ Continue(p, MaxRaceNotifs)

RemindClock ==
    /\ TRUE
    /\ Pass(GraceTicks, MaxTime)

NextReminders == RemindStart \/ RemindProgress \/ RemindClock

SpecReminders == InitReminders /\ [][NextReminders]_vars

(***************************************************************************)
(* SpecShop: shoppers select slots (lock_slot, unlock_slot) and book them  *)
(* (book_spot), one request at a time, with well-formed and ill-formed     *)
(* forms; process 1 keeps the answer to the last request.                  *)
(***************************************************************************)
MaxShopBookings == 1
MaxShopTime == 2

S_PAIR == S_L1C01 \o <<",", " ">> \o S_B01
S_BLANK == <<" ", ",", " ">>

\* what the client is left with: which kind of request it was and its answer
Response(f) == [IdleFrame EXCEPT !.op = f.op, !.res = f.res, !.view = f.view]

ServeLogged(req) ==
    /\ LET r == Run(req, DB, now)
       IN  /\ r.d.nextId <= MaxShopBookings + 1
           /\ WithinBounds(r.d)
           /\ Commit(r.d)
           /\ procs' = [procs EXCEPT ![1] = Response(r.f)]
    /\ UNCHANGED now

\* the forms a shopper submits to /book: every well-formed one over the small
\* sets below, and one ill-formed form per way of failing validation
GoodForms(t1, t2) ==
    {BookRequest(u, x[1], TimeStr(0), dur, x[2], t1, t2) :
        u \in {"u1", "mgr"}, dur \in {1, 2},
        x \in {<<"a1", S_L1C01>>, <<"a1", S_B01>>, <<"a1", S_PAIR>>, <<"a2", S_B01>>}}
    \cup {BookRequest("adm", "a1", TimeStr(0), 1, S_B01, t1, t2)}

BadForms(t1, t2) ==
    {BookRequest("u1", "", TimeStr(0), 1, S_L1C01, t1, t2),
     BookRequest("u1", "a1", NoTime, 1, S_L1C01, t1, t2),
     BookRequest("u1", "a1", BadTime, 1, S_L1C01, t1, t2),
     BookRequest("u1", "a1", TimeStr(0), 1, <<>>, t1, t2),
     BookRequest("u1", "a1", TimeStr(0), 1, S_BLANK, t1, t2),
     BookRequest("u0", "a1", TimeStr(0), 1, S_L1C01, t1, t2),
     BookRequest("u1", "a9", TimeStr(0), 1, S_L1C01, t1, t2)}

Forms(t1, t2) == GoodForms(t1, t2) \cup BadForms(t1, t2)

\* the (user, area, slot) triples of the lock requests
LockCalls ==
    {<<"u1", "a1", S_L1C01>>, <<"u2", "a1", S_L1C01>>, <<"u2", "a1", S_B01>>,
     <<"u1", "a2", S_B01>>}

InitShop ==
    /\ now = 0
    /\ bookings = <<>>
    /\ nextId = 1
    /\ occupied = [a \in AreaIds |-> 0]
    /\ locks = {}
    /\ notifs = EmptyBag
    /\ prefs = {Preference("u2", "a1", 1)}
    /\ procs = [p \in {1} |-> IdleFrame]

ShopCreate ==
    \E req \in Forms(TokenPool[2 * nextId - 1], TokenPool[2 * nextId]) :
        /\ Idle
        /\ ServeLogged(req)

ShopAcquire ==
    \E c \in LockCalls :
        /\ Idle
        /\ ServeLogged(LockRequest(c[1], c[2], c[3]))

ShopRelease ==
    \E c \in LockCalls :
        /\ Idle
        /\ ServeLogged(UnlockRequest(c[1], c[2], c[3]))

ShopClock ==
    /\ Idle
    /\ Pass(LockTTL, MaxShopTime)

NextShop == ShopCreate \/ ShopAcquire \/ ShopRelease \/ ShopClock

SpecShop == InitShop /\ [][NextShop]_vars

(***************************************************************************)
(* SpecView: one paid booking of u1 on L1-C01 of a1 for the first hour;    *)
(* the manager checks the vehicle in and out, shoppers select slots, and   *)
(* the slot map of a1 is requested for several windows by a visitor and by *)
(* both shoppers, one request at a time, while the hours pass.             *)
(***************************************************************************)
MaxViewTime == 24

\* the start_time parameters of the slot map requests; NoTime is a request
\* without the parameter
ViewWindows == {NoTime, TimeStr(0), TimeStr(Hour), TimeStr(3 * Hour)}

Viewers == {"", "u1", "u2"}

ViewLockCalls ==
    {<<"u2", "a1", S_L1C01>>, <<"u2", "a1", S_B01>>, <<"u1", "a1", S_L2C01>>}

ServeView(req) ==
    /\ LET r == Run(req, DB, now)
       IN  /\ Bounded(r.d, MaxRaceNotifs)
           /\ Commit(r.d)
           /\ procs' = [procs EXCEPT ![1] = Response(r.f)]
    /\ UNCHANGED now

InitView ==
    /\ now = 0
    /\ bookings = (1 :> PaidBooking("u1", "a1", S_L1C01, 0, T1, T2))
    /\ nextId = 2
    /\ occupied = [a \in AreaIds |-> IF a = "a1" THEN 1 ELSE 0]
    /\ locks = {}
    /\ notifs = SetToBag({Notification("u1", "confirmed", "a1", 0)})
    /\ prefs = {Preference("u2", "a1", 1)}
    /\ procs = [p \in {1} |-> IdleFrame]

ViewResolve ==
    \E u \in Viewers, w \in ViewWindows :
        /\ Idle
        /\ ServeView(ResolveRequest(u, "a1", w, 1))

ViewAcquire ==
    \E c \in ViewLockCalls :
        /\ Idle
        /\ ServeView(LockRequest(c[1], c[2], c[3]))

ViewGate ==
    \E token \in {T1, T2} :
        /\ Idle
        /\ ServeView(VerifyRequest("mgr", token, VehicleNumber("u1")))

ViewClock ==
    /\ Idle
    /\ Pass(Hour, MaxViewTime)

NextView == ViewResolve \/ ViewAcquire \/ ViewGate \/ ViewClock

SpecView == InitView /\ [][NextView]_vars

(***************************************************************************)
(* SpecExit: two bookings of a1 for the first hour, u1's paid booking of   *)
(* the car slot L1-C01 and u2's unpaid booking of L2-C01 with the bike     *)
(* slot B-01 (the state after their book_spot and u1's pay_booking at time *)
(* 0).  The owners pay, extend and cancel, the manager checks the vehicles *)
(* in and out, one request at a time, while the clock runs in half hours.  *)
(***************************************************************************)
MaxExitTime == 30
MaxExitEnd == 60

S_PAIR2 == S_L2C01 \o <<",", " ">> \o S_B01

\* a request served alone, whose answer the client keeps
ServeAnswered(req) ==
    /\ LET r == Run(req, DB, now)
       IN  /\ Commit(r.d)
           /\ procs' = [procs EXCEPT ![1] = Response(r.f)]
    /\ UNCHANGED now

InitExit ==
    /\ now = 0
    /\ bookings = (1 :> PaidBooking("u1", "a1", S_L1C01, 0, T1, T2))
                  @@ (2 :> NewBooking(BookRun("u2", "a1", S_PAIR2, 0, T3, T4)))
    /\ nextId = 3
    /\ occupied = [a \in AreaIds |-> IF a = "a1" THEN 3 ELSE 0]
    /\ locks = {}
    /\ notifs = SetToBag({Notification("u1", "confirmed", "a1", 0)})
    /\ prefs = {Preference("u2", "a1", 1)}
    /\ procs = [p \in {1} |-> IdleFrame]

\* the dashboard offers payment for a booking that awaits it
ExitPay ==
    \E id \in DOMAIN bookings :
        /\ Idle
        /\ bookings[id].status = "Pending Payment"
        /\ ServeAnswered(PayRequest(bookings[id].user_id, id))

ExitCancel ==
    \E id \in DOMAIN bookings :
        /\ Idle
        /\ ServeAnswered(CancelRequest(bookings[id].user_id, id))

ExitGate ==
    \E k \in 1..4, u \in Shoppers :
        /\ Idle
        /\ ServeAnswered(VerifyRequest("mgr", TokenPool[k], VehicleNumber(u)))

\* the owner of a booking that is still live buys four more hours, as long
\* as the booking then ends within MaxExitEnd
ExitExtend ==
    \E id \in DOMAIN bookings :
        /\ Idle
        /\ bookings[id].status \in LiveStatuses
        /\ bookings[id].end_time + 4 * Hour <= MaxExitEnd
        /\ ServeAnswered(ExtendRequest(bookings[id].user_id, id, 4))

ExitClock ==
    /\ Idle
    /\ Pass(Hour \div 2, MaxExitTime)

NextExit == ExitPay \/ ExitCancel \/ ExitExtend \/ ExitGate \/ ExitClock

SpecExit == InitExit /\ [][NextExit]_vars

(***************************************************************************)
(* SpecTokens: bookings are created with tokens drawn by uuid4: any value  *)
(* of the token space may come out, here any of Tokens.  The owners pay   *)
(* and the manager uses the tokens at the gate.                            *)
(***************************************************************************)
Tokens == {T1, T2}

TokenCreate ==
    \E raw \in {S_L1C01, S_B01}, t1 \in Tokens, t2 \in Tokens :
        /\ Idle
        /\ ServeView(BookRequest("u1", "a1", TimeStr(0), 1, raw, t1, t2))

TokenGate ==
    \E t \in Tokens :
        /\ Idle
        /\ ServeView(VerifyRequest("mgr", t, VehicleNumber("u1")))

\* POST /pay/<id> by the owner, whatever the status of the booking
TokenPay ==
    \E id \in DOMAIN bookings :
        /\ Idle
        /\ ServeView(PayRequest(bookings[id].user_id, id))

NextTokens == TokenCreate \/ TokenGate \/ TokenPay

SpecTokens == Init /\ [][NextTokens]_vars

(***************************************************************************)
(* SpecCancel: u1 holds one unpaid booking in a1; u1 cancels it in one     *)
(* request while a second process serves u1's payment and the manager's    *)
(* token verifications.                                                    *)
(***************************************************************************)
InitCancel ==
    /\ now = 0
    /\ bookings = (1 :> NewBooking(BookRun("u1", "a1", S_L1C01, 0, T1, T2)))
    /\ nextId = 2
    /\ occupied = [a \in AreaIds |-> IF a = "a1" THEN 1 ELSE 0]
    /\ locks = {}
    /\ notifs = EmptyBag
    /\ prefs = {}
    /\ procs = [p \in Procs |-> IdleFrame]

CancelSubmit ==
    /\ TRUE
    /\ Begin(1, CancelRequest("u1", 1), MaxRaceNotifs)

CancelPay ==
    /\ TRUE
    /\ Begin(2, PayRequest("u1", 1), MaxRaceNotifs)

CancelGate ==
    \E token \in {T1, T2} :
        /\ TRUE
        /\ Begin(2, VerifyRequest("mgr", token, VehicleNumber("u1")), MaxRaceNotifs)

CancelProgress ==
    \E p \in Procs :
        /\ TRUE
        /\ Continue(p, MaxRaceNotifs)

CancelClock ==
    /\ TRUE
    /\ Pass(Hour, MaxTime)

NextCancel == CancelSubmit \/ CancelPay \/ CancelGate \/ CancelProgress \/ CancelClock

SpecCancel == InitCancel /\ [][NextCancel]_vars

(***************************************************************************)
(* SpecReclaim: u1 and u2 each hold a paid booking in a1 (slots B-01 and   *)
(* L1-C01, both from time 0).  Requests are served one at a time, a sweep  *)
(* one store operation per step; pages that run the no-show sweep keep     *)
(* being requested (SpecReclaimFair).                                      *)
(***************************************************************************)
MaxReclaimTime == 6

InitReclaim ==
    /\ now = 0
    /\ bookings = (1 :> PaidBooking("u1", "a1", S_B01, 0, T1, T2))
                  @@ (2 :> PaidBooking("u2", "a1", S_L1C01, 0, T3, T4))
    /\ nextId = 3
    /\ occupied = [a \in AreaIds |-> IF a = "a1" THEN 2 ELSE 0]
    /\ locks = {}
    /\ notifs = SetToBag({Notification("u1", "confirmed", "a1", 0)})
                (+) SetToBag({Notification("u2", "confirmed", "a1", 0)})
    /\ prefs = {Preference("u2", "a1", 1)}
    /\ procs = [p \in {1} |-> IdleFrame]

\* one store operation of the sweep that is being served
ReclaimStep(f) ==
    /\ LET r == Step(f, DB, now)
       IN  /\ Commit(r.d)
           /\ procs' = [procs EXCEPT ![1] = r.f]
    /\ UNCHANGED now

\* a page that runs the sweep is requested: its first operation
ReclaimSweep ==
    \E k \in SweepKinds :
        /\ Idle
        /\ ReclaimStep(SweepRequest(k[1], k[2]))

\* the sweep goes on, no other request being served meanwhile
ReclaimSweepOn ==
    /\ ~Idle
    /\ ReclaimStep(procs[1])

\* the driver of a booking shows one of its two tokens at the gate of a1
ReclaimGate ==
    \E id \in DOMAIN bookings, token \in {T1, T2, T3, T4} :
        /\ Idle
        /\ token \in {bookings[id].booking_token, bookings[id].exit_token}
        /\ ServeAnswered(VerifyRequest("mgr", token, bookings[id].vehicle_number))

ReclaimCancel ==
    \E id \in DOMAIN bookings :
        /\ Idle
        /\ ServeAnswered(CancelRequest(bookings[id].user_id, id))

ReclaimClock ==
    /\ Idle
    /\ Pass(GraceTicks, MaxReclaimTime)

NextReclaim ==
    ReclaimSweep \/ ReclaimSweepOn \/ ReclaimGate \/ ReclaimCancel \/ ReclaimClock

SpecReclaim == InitReclaim /\ [][NextReclaim]_vars

\* index and the dashboards run check_no_shows on every page load, and a
\* request that is being served runs on to its end
SpecReclaimFair == SpecReclaim /\ WF_vars(ReclaimSweep) /\ WF_vars(ReclaimSweepOn)

(***************************************************************************)
(* Properties                                                              *)
(***************************************************************************)
LiveSpots(bs, a) ==
    LET ids == {id \in DOMAIN bs : bs[id].area_id = a /\ bs[id].status \in LiveStatuses}
        RECURSIVE Sum(_)
        Sum(S) == IF S = {} THEN 0
                  ELSE LET x == CHOOSE y \in S : TRUE IN bs[x].spots + Sum(S \ {x})
    IN  Sum(ids)

WindowsOverlap(b, o) == b.start_time < o.end_time /\ o.start_time < b.end_time

\* C1: in every state between requests, every area's occupied counter equals
\* the sum of spots of its Pending Payment, Confirmed and Active bookings.
C1_OccupiedEqualsLiveSpots ==
    Idle => \A a \in AreaIds : occupied[a] = LiveSpots(bookings, a)

\* C2: no two distinct live bookings of one area that share a slot have
\* overlapping [start_time, end_time) windows.
C2_NoDoubleBooking ==
    \A i, j \in DOMAIN bookings :
        (/\ i # j
         /\ bookings[i].area_id = bookings[j].area_id
         /\ bookings[i].status \in LiveStatuses
         /\ bookings[j].status \in LiveStatuses
         /\ Range(bookings[i].slot_ids) \cap Range(bookings[j].slot_ids) # {})
        => ~WindowsOverlap(bookings[i], bookings[j])

\* C3: every area's occupied counter stays within 0..capacity.
C3_OccupiedWithinCapacity ==
    \A a \in AreaIds : 0 <= occupied[a] /\ occupied[a] <= AreaCapacity(a)

UnexpiredLocks(a, s) ==
    {k \in locks : k.area_id = a /\ k.slot_number = s /\ ~(k.expires_at < now)}

\* process p's last request was an acquire of (a, s) that succeeded, and the
\* five minutes it was granted for have not passed
HoldsGrant(p, a, s) ==
    /\ procs[p].pc = "done"
    /\ procs[p].op = "lock"
    /\ procs[p].res = "ok"
    /\ procs[p].a.area_id = a
    /\ procs[p].a.slot_number = s
    /\ ~(procs[p].at + LockTTL < now)

\* C4: on every key at most one unexpired lock exists, and two different users
\* are never both answered success for a key while neither grant has expired
\* or been given up.
C4_LockMutualExclusion ==
    \A s \in LockKeys :
        /\ Cardinality(UnexpiredLocks("a1", s)) <= 1
        /\ ~(HoldsGrant(1, "a1", s) /\ HoldsGrant(2, "a1", s))

\* C5: u1 held an unexpired lock on L1-C01 when the bookings were submitted;
\* the store never holds a booking of u1 and a booking of another user on
\* L1-C01 with overlapping windows.
C5_LockPreventsDoubleCommit ==
    \A i, j \in DOMAIN bookings :
        (/\ bookings[i].user_id = "u1"
         /\ bookings[j].user_id # "u1"
         /\ S_L1C01 \in Range(bookings[i].slot_ids) \cap Range(bookings[j].slot_ids))
        => ~WindowsOverlap(bookings[i], bookings[j])

\* C6: the one booking of the area (1 spot, occupied = 1 at the start) is
\* released at most once, whatever check-outs and sweeps overlap: occupied
\* never goes below what one release leaves.
C6_ReleasedAtMostOnce ==
    \A id \in DOMAIN bookings :
        occupied[bookings[id].area_id] >= 1 - bookings[id].spots

\* C7: with only sweeps running, whenever no sweep is in progress the counter
\* of a1 is the 2 spots booked at the start minus one spot per booking that is
\* Cancelled (No Show).
C7_SweptExactlyOnce ==
    Idle =>
        occupied["a1"] =
            2 - Cardinality({id \in DOMAIN bookings :
                                bookings[id].status = "Cancelled (No Show)"})

\* C8: a booking that is Completed, Cancelled (User) or Cancelled (No Show)
\* keeps that status in every later state.
C8_TerminalAbsorbing ==
    [][\A id \in DOMAIN bookings :
          bookings[id].status \in TerminalStatuses
          => (id \in DOMAIN bookings' /\ bookings'[id].status = bookings[id].status)]_vars

\* C9: a ConfirmPayment request sets the status to Confirmed when the booking
\* exists, is the caller's and is Pending Payment; otherwise it answers
\* NotFound and leaves the bookings as they were.
C9_PayOnlyPendingOwned ==
    [][\A u \in Shoppers, id \in 1..MaxBookings :
          (Idle /\ Serve(PayRequest(u, id)))
          => IF /\ id \in DOMAIN bookings
                /\ bookings[id].user_id = u
                /\ bookings[id].status = "Pending Payment"
             THEN bookings'[id].status = "Confirmed"
             ELSE /\ Run(PayRequest(u, id), DB, now).f.res = "NotFound"
                  /\ bookings' = bookings]_vars

SlotFreeNotes(ns) ==
    BagCardinality([n \in {m \in BagToSet(ns) : m.kind = "slot_free"} |-> CopiesIn(n, ns)])

\* the bookings a sweep from store d moved from Confirmed to Cancelled (No Show)
Expired(d, e) ==
    {id \in DOMAIN d.bookings :
        /\ d.bookings[id].status = "Confirmed"
        /\ id \in DOMAIN e.bookings
        /\ e.bookings[id].status = "Cancelled (No Show)"}

SpotsOf(d, ids, a) ==
    LET RECURSIVE Sum(_)
        Sum(S) == IF S = {} THEN 0
                  ELSE LET x == CHOOSE y \in S : TRUE
                       IN  (IF d.bookings[x].area_id = a THEN d.bookings[x].spots ELSE 0)
                           + Sum(S \ {x})
    IN  Sum(ids)

\* C10: from every state between requests, a no-show sweep followed by a
\* second one (at the same or a later time): the second does not pick up a
\* booking the first expired, whose document (status, refund_amount) stays as
\* the first left it; the second takes from occupied only the spots of the
\* bookings it expires itself; a second sweep that expires nothing leaves
\* occupied and the preference notifications alone; and a second sweep right
\* after a first one that ran to its end changes nothing at all.
C10_NoShowSweepIdempotent ==
    Idle =>
    \A k \in SweepKinds, t2 \in {now, now + GraceTicks} :
        LET first == Run(SweepRequest(k[1], k[2]), DB, now)
            again == Run(SweepRequest(k[1], k[2]), first.d, t2)
        IN  /\ \A id \in Expired(DB, first.d) :
                  /\ id \notin NoShowQuery(first.d, t2, k[1])
                  /\ again.d.bookings[id] = first.d.bookings[id]
                  /\ first.d.bookings[id].refund_amount
                        = Some(Refund(bookings[id].amount))
                  /\ first.d.occupied[bookings[id].area_id]
                        <= occupied[bookings[id].area_id] - bookings[id].spots
            /\ \A a \in AreaIds :
                  again.d.occupied[a] =
                      first.d.occupied[a] - SpotsOf(first.d, Expired(first.d, again.d), a)
            /\ Expired(first.d, again.d) = {}
               => SlotFreeNotes(again.d.notifs) = SlotFreeNotes(first.d.notifs)
            /\ (t2 = now /\ first.f.res = "ok") => again.d = first.d

\* a sweep has expired a booking and has nothing left to expire
C10_Witness ==
    /\ \E id \in DOMAIN bookings :
          /\ bookings[id].status = "Cancelled (No Show)"
          /\ IsSome(bookings[id].refund_amount)
          /\ occupied[bookings[id].area_id] = LiveSpots(bookings, bookings[id].area_id)
    /\ SlotFreeNotes(notifs) > 0
    /\ NoShowQuery(DB, now, "") = {}

ReminderNotes(ns, u) ==
    BagCardinality([n \in {m \in BagToSet(ns) : m.kind = "reminder" /\ m.user_id = u}
                       |-> CopiesIn(n, ns)])

\* C11: however many reminder sweeps have run, one after the other or
\* overlapping, the user of the one Active booking has been sent at most one
\* 'time running out' notification.
C11_ReminderFiresOnce == ReminderNotes(notifs, "u1") <= 1

\* the forms a shopper can submit in the current state
FormsNow == Forms(TokenPool[2 * nextId - 1], TokenPool[2 * nextId])

\* C12: a Create that is not answered ok (empty selection, missing area or
\* time, unparsable time, no vehicle number, unknown area, slot collision, slot
\* locked by another user) leaves the bookings, the occupied counters and the
\* locks as they were.
C12_FailedCreateChangesNothing ==
    \A req \in FormsNow :
        LET r == Run(req, DB, now)
        IN  r.f.res # "ok" =>
                /\ r.d.bookings = bookings
                /\ r.d.occupied = occupied
                /\ r.d.locks = locks
                /\ r.f.ev = <<>>

\* a Create has just been refused for a lock while the caller holds a lock of
\* its own in the area and a booking is stored
C12_Witness ==
    /\ procs[1].op = "book"
    /\ procs[1].res = "SlotLocked"
    /\ bookings # <<>>
    /\ \E k \in locks : k.user_id = "u1" /\ k.area_id = "a1"
    /\ \E req \in FormsNow :
          /\ req.user = "u1"
          /\ Run(req, DB, now).f.res = "SlotLocked"

\* a stored booking holds one of the slots over the window [st, en) under the
\* resolver's rule (an Active booking lasts until max(end_time, now))
HeldOver(d, t, a, slots, st, en) ==
    \E id \in DOMAIN d.bookings :
        LET b == d.bookings[id]
        IN  /\ b.area_id = a
            /\ b.status \in LiveStatuses
            /\ Range(b.slot_ids) \cap Range(slots) # {}
            /\ b.start_time < en
            /\ EffectiveEnd(b, t) > st

\* C13: a well-formed Create for a slot that a live booking holds over the
\* requested window under the resolver's rule is answered SlotCollision; in
\* particular when the window overlaps [end_time, now) of an Active booking
\* that has overstayed.
C13_CollisionUsesEffectiveEnd ==
    \A a \in AreaIds, st \in StartTimes :
        \A raw \in SlotChoice(a) :
            HeldOver(DB, now, a, ParseSlotIds(raw), st, st + Hour)
            => Run(BookRequest("u1", a, TimeStr(st), 1, raw,
                               TokenPool[2 * nextId - 1], TokenPool[2 * nextId]),
                   DB, now).f.res = "SlotCollision"

\* C14: a Create is answered SlotLocked only when a lock of another user on
\* one of its slots has not expired (expires_at >= now); an expired lock
\* never refuses it.
C14_ExpiredLockInert ==
    \A req \in FormsNow :
        Run(req, DB, now).f.res = "SlotLocked"
        => \E k \in locks :
              /\ k.area_id = req.a.area_id
              /\ k.slot_number \in Range(ParseSlotIds(req.a.slot_id))
              /\ k.user_id # req.user
              /\ ~(k.expires_at < now)

\* C15: a Create answered ok stores exactly one new booking, of the caller, on
\* the requested slots and window, Pending Payment, with grace_period_end 15
\* minutes after start_time; the other bookings stay; occupied of the area
\* grows by the number of requested slots and no other counter moves; the
\* caller's locks in that area are gone and every other lock stays; and one
\* availability event for the area is emitted.
C15_SuccessfulCreate ==
    \A req \in FormsNow :
        LET r == Run(req, DB, now)
            a == req.a.area_id
            slots == ParseSlotIds(req.a.slot_id)
        IN  r.f.res = "ok" =>
                /\ DOMAIN r.d.bookings = DOMAIN bookings \cup {nextId}
                /\ nextId \notin DOMAIN bookings
                /\ \A id \in DOMAIN bookings : r.d.bookings[id] = bookings[id]
                /\ LET b == r.d.bookings[nextId]
                   IN  /\ b.status = "Pending Payment"
                       /\ b.user_id = req.user
                       /\ b.area_id = a
                       /\ b.slot_ids = slots
                       /\ b.spots = Len(slots)
                       /\ b.start_time = req.a.booking_time.t
                       /\ b.end_time = b.start_time + req.a.duration * Hour
                       /\ b.grace_period_end = b.start_time + Hour \div 4
                /\ r.d.occupied = [occupied EXCEPT ![a] = @ + Len(slots)]
                /\ r.d.locks = {k \in locks : ~(k.user_id = req.user /\ k.area_id = a)}
                /\ Len(r.f.ev) = 1
                /\ r.f.ev[1].event = "update_availability"
                /\ r.f.ev[1].area_id = a
                /\ r.f.ev[1].occupied = r.d.occupied[a]

\* u1 holds a lock in a1 and one in a2, u2 holds a lock in a1, and u1 submits
\* a form for a1 that is accepted: its lock in a1 goes, the other two stay
C15_Witness ==
    /\ \E k \in locks : k.user_id = "u1" /\ k.area_id = "a1"
    /\ \E k \in locks : k.user_id = "u2" /\ k.area_id = "a1"
    /\ \E k \in locks : k.user_id = "u1" /\ k.area_id = "a2"
    /\ \E req \in FormsNow :
          LET r == Run(req, DB, now)
          IN  /\ req.user = "u1"
              /\ req.a.area_id = "a1"
              /\ r.f.res = "ok"
              /\ r.d.nextId <= MaxShopBookings + 1
              /\ Cardinality(r.d.locks) = 2
              /\ r.d.occupied["a1"] = 1

\* the amount the pricing rule gives, in thousandths of a rupee: per slot the
\* base price, halved for a slot whose name starts with "B-", times the hours,
\* and a quarter of the total for an administrator or an area manager
RuleAmount(base, staff, slots, hours) ==
    LET rate(s) == IF Len(s) >= 2 /\ s[1] = "B" /\ s[2] = "-" THEN base \div 2 ELSE base
        RECURSIVE Total(_)
        Total(i) == IF i = 0 THEN 0 ELSE rate(slots[i]) * hours + Total(i - 1)
    IN  IF staff THEN Total(Len(slots)) \div 4 ELSE Total(Len(slots))

\* C16: the amount of every booking a Create stores is the one the pricing
\* rule gives; with base price 20 and 2 hours, one car slot costs 40 and the
\* bike slot B-01 costs 20.
C16_AmountFollowsPricingRule ==
    \A req \in FormsNow :
        LET r == Run(req, DB, now)
            u == req.user
            a == req.a.area_id
        IN  r.f.res = "ok" =>
                /\ r.d.bookings[nextId].amount =
                       RuleAmount(IF a = "a1" THEN 20 * Rupee ELSE 50 * Rupee,
                                  u \in {"adm", "mgr"},
                                  ParseSlotIds(req.a.slot_id), req.a.duration)
                /\ (u = "u1" /\ a = "a1" /\ req.a.duration = 2 /\ req.a.slot_id = S_L1C01)
                   => r.d.bookings[nextId].amount = 40 * Rupee
                /\ (u = "u1" /\ a = "a1" /\ req.a.duration = 2 /\ req.a.slot_id = S_B01)
                   => r.d.bookings[nextId].amount = 20 * Rupee

\* u1 has just booked the bike slot B-01 of the area of base price 20 for two
\* hours, for 20 rupees
C16_Witness ==
    /\ procs[1].op = "book"
    /\ procs[1].res = "ok"
    /\ \E id \in DOMAIN bookings :
          /\ bookings[id].user_id = "u1"
          /\ bookings[id].area_id = "a1"
          /\ bookings[id].slot_ids = <<S_B01>>
          /\ bookings[id].duration = 2
          /\ bookings[id].amount = 20 * Rupee

\* an unexpired lock on (a, s) is owned by somebody other than u
HeldByOther(a, s, u) ==
    \E k \in locks :
        /\ k.area_id = a
        /\ k.slot_number = s
        /\ k.user_id # u
        /\ ~(k.expires_at < now)

\* the acquire leaves exactly one lock on (a, s): of u, expiring in 5 minutes
OneFreshLock(d, a, s, u) ==
    {k \in d.locks : k.area_id = a /\ k.slot_number = s}
        = {Lock(a, s, u, now + Hour \div 12)}

\* C17 as stated: an acquire against an unexpired lock of another user is
\* answered LockHeld and changes nothing in the store; every other acquire is
\* answered ok and leaves exactly one lock on the key, of the caller,
\* expiring 5 minutes from now.
C17_AcquireAsStated ==
    \A c \in LockCalls :
        LET r == Run(LockRequest(c[1], c[2], c[3]), DB, now)
        IN  IF HeldByOther(c[2], c[3], c[1])
            THEN r.f.res = "LockHeld" /\ r.d = DB
            ELSE r.f.res = "ok" /\ OneFreshLock(r.d, c[2], c[3], c[1])

\* C17 (amended): an acquire against an unexpired lock of another user is
\* answered LockHeld and changes nothing but the expired locks, which are
\* purged from the store; every other acquire is answered ok and leaves
\* exactly one lock on the key, of the caller, expiring 5 minutes from now.
C17_AcquirePurgesExpired ==
    \A c \in LockCalls :
        LET r == Run(LockRequest(c[1], c[2], c[3]), DB, now)
        IN  IF HeldByOther(c[2], c[3], c[1])
            THEN /\ r.f.res = "LockHeld"
                 /\ r.d = [DB EXCEPT !.locks = {k \in @ : ~(k.expires_at < now)}]
            ELSE r.f.res = "ok" /\ OneFreshLock(r.d, c[2], c[3], c[1])

\* an acquire has just been refused with LockHeld, and the next one against
\* the same holder would purge an expired lock; another key holds an expired
\* lock of another user that no longer stops its acquire
C17_Witness ==
    /\ procs[1].op = "lock"
    /\ procs[1].res = "LockHeld"
    /\ \E c \in LockCalls :
          /\ HeldByOther(c[2], c[3], c[1])
          /\ Run(LockRequest(c[1], c[2], c[3]), DB, now).d.locks # locks
    /\ \E k \in locks : k.expires_at < now

\* C18: a release is always answered ok; it removes the lock on (area, slot)
\* when that lock is the caller's and otherwise leaves the lock store as it
\* was; no other lock, no booking and no area changes.
C18_ReleaseOnlyOwnLock ==
    \A c \in LockCalls :
        LET r == Run(UnlockRequest(c[1], c[2], c[3]), DB, now)
            own == {k \in locks : k.area_id = c[2] /\ k.slot_number = c[3]
                                  /\ k.user_id = c[1]}
        IN  /\ r.f.res = "ok"
            /\ r.d = [DB EXCEPT !.locks = @ \ own]
            /\ own = {} => r.d.locks = locks

\* a release has just been served while the key was locked by somebody else:
\* u1's lock on (a1, L1-C01) is still there after u2's release of that key,
\* next to a lock of u2 and a booking
C18_Witness ==
    /\ procs[1].op = "unlock"
    /\ procs[1].res = "ok"
    /\ \E k \in locks : k.user_id = "u1" /\ k.area_id = "a1" /\ k.slot_number = S_L1C01
    /\ \E k \in locks : k.user_id = "u2"
    /\ bookings # <<>>
    /\ Run(UnlockRequest("u2", "a1", S_L1C01), DB, now).d = DB
    /\ Run(UnlockRequest("u1", "a1", S_L1C01), DB, now).d.locks # locks

\* the status of slot s in the answer to a slot map request
StatusIn(view, s) ==
    LET i == CHOOSE j \in DOMAIN view : view[j].slot_number = s
    IN  view[i].status

\* the slots of area a that carry a lock which has not expired and whose
\* owner satisfies Owner
LockedSlots(a, Owner(_)) ==
    {k.slot_number : k \in {x \in locks : /\ x.area_id = a
                                          /\ ~(x.expires_at < now)
                                          /\ Owner(x.user_id)}}

\* C19: the answer to a slot map request lists every slot of the area once,
\* and a slot is Occupied if it is in the occupied set, else Locked if a
\* user other than the viewer (anybody, for a visitor who is not logged in)
\* holds a lock on it, else Selected if the viewer holds a lock on it, else
\* Available.
C19_StatusByPriority ==
    \A u \in Viewers, w \in ViewWindows :
        LET r == Run(ResolveRequest(u, "a1", w, 1), DB, now)
            view == r.f.view
            st == IF w.kind = "ok" THEN w.t ELSE now
            occ == OccupiedSet(DB, now, "a1", st, st + Hour, w.kind # "ok")
            OtherThan(o) == u = "" \/ o # u
            Same(o) == u # "" /\ o = u
            others == LockedSlots("a1", OtherThan)
            mine == LockedSlots("a1", Same)
        IN  /\ [i \in DOMAIN view |-> view[i].slot_number] = AreaSlots("a1")
            /\ \A i \in DOMAIN view :
                   LET s == view[i].slot_number
                   IN  view[i].status =
                           CASE s \in occ -> "Occupied"
                             [] s \notin occ /\ s \in others -> "Locked"
                             [] s \notin occ /\ s \notin others /\ s \in mine -> "Selected"
                             [] OTHER -> "Available"

\* a shopper has just been shown a map with the three upper ranks at once:
\* the booked slot Occupied although another shopper holds a lock on it, a
\* slot locked by the other shopper, and the shopper's own selection
C19_Witness ==
    /\ procs[1].op = "resolve"
    /\ procs[1].view # <<>>
    /\ StatusIn(procs[1].view, S_L1C01) = "Occupied"
    /\ StatusIn(procs[1].view, S_B01) = "Locked"
    /\ StatusIn(procs[1].view, S_L2C01) = "Selected"
    /\ \E k \in locks : k.slot_number = S_L1C01 /\ k.user_id = "u2"
                        /\ ~(k.expires_at < now)

\* C20: whatever the viewer and the window, a slot of an Active booking
\* whose end_time has passed is reported Occupied (never Available, Locked
\* or Selected).
C20_OverstayNeverFree ==
    \A u \in Viewers, w \in ViewWindows :
        \A id \in DOMAIN bookings :
            LET b == bookings[id]
                view == Run(ResolveRequest(u, b.area_id, w, 1), DB, now).f.view
            IN  (b.status = "Active" /\ b.end_time < now)
                    => \A s \in Range(b.slot_ids) : StatusIn(view, s) = "Occupied"

\* the live bookings of area a other than Active ones that hold slot s and
\* whose window [start_time, end_time) has an instant in common with [st, en)
Overlapping(a, s, st, en) ==
    {id \in DOMAIN bookings :
        LET b == bookings[id]
        IN  /\ b.area_id = a
            /\ s \in Range(b.slot_ids)
            /\ b.status \in {"Pending Payment", "Confirmed"}
            /\ b.start_time < en
            /\ st < b.end_time}

ActiveOn(a, s) ==
    {id \in DOMAIN bookings :
        /\ bookings[id].area_id = a
        /\ s \in Range(bookings[id].slot_ids)
        /\ bookings[id].status = "Active"}

\* C21: windows are half-open.  A Create for one slot is answered
\* SlotCollision, and the slot map shows the slot Occupied, only if an Active
\* booking holds the slot or a Pending Payment or Confirmed booking of the
\* slot has an instant in common with the requested window; a booking that
\* ends exactly when the window starts, or starts exactly when it ends, does
\* neither.
C21_HalfOpenWindows ==
    \A a \in AreaIds, st \in {0, Hour, 2 * Hour} :
        \A s \in SlotChoice(a) :
            LET en == st + Hour
                none == Overlapping(a, s, st, en) = {} /\ ActiveOn(a, s) = {}
                create == Run(BookRequest("u1", a, TimeStr(st), 1, s, T3, T4), DB, now)
                view == Run(ResolveRequest("", a, TimeStr(st), 1), DB, now).f.view
            IN  none => /\ create.f.res # "SlotCollision"
                        /\ StatusIn(view, s) # "Occupied"

\* two live bookings of one slot, one ending exactly when the other starts:
\* the second Create was accepted at the boundary, and the slot map of the
\* second hour does not show the first booking
C21_Witness ==
    \E i \in DOMAIN bookings, j \in DOMAIN bookings :
        /\ bookings[i].status \in {"Pending Payment", "Confirmed"}
        /\ bookings[j].status \in {"Pending Payment", "Confirmed"}
        /\ bookings[i].area_id = bookings[j].area_id
        /\ bookings[i].slot_ids = bookings[j].slot_ids
        /\ bookings[i].end_time = bookings[j].start_time
        /\ i < j
        /\ bookings[i].area_id = "a1"
        /\ StatusIn(Run(ResolveRequest("", "a1", TimeStr(2 * Hour), 1), DB, now).f.view,
                    bookings[i].slot_ids[1]) = "Available"

\* the bookings the manager "mgr" may handle: those of the managed area
InManagedArea(id) == bookings[id].area_id = ManagedAreaId("mgr")

\* the entry-token request for booking id, as the manager types it
CheckInOf(id) ==
    VerifyRequest("mgr", bookings[id].booking_token, bookings[id].vehicle_number)

\* the exit-token request for booking id
CheckOutOf(id) ==
    VerifyRequest("mgr", bookings[id].exit_token, bookings[id].vehicle_number)

\* C22: a check-in of a booking of the manager's area with the right vehicle
\* and entry token makes a Confirmed or Pending Payment booking Active, stamps
\* check_in_time and adds one notification for its user; on an Active booking
\* it answers AlreadyCheckedIn and in any other status InvalidState, changing
\* nothing; the occupied counter never changes.
C22_CheckIn ==
    \A id \in DOMAIN bookings :
        InManagedArea(id) =>
            LET b == bookings[id]
                r == Run(CheckInOf(id), DB, now)
            IN  /\ r.d.occupied = occupied
                /\ CASE b.status \in {"Confirmed", "Pending Payment"} ->
                          /\ r.f.res = "CheckedIn"
                          /\ r.d = [DB EXCEPT
                                !.bookings[id] = [b EXCEPT !.status = "Active",
                                                           !.check_in_time = Some(now)],
                                !.notifs = @ (+) SetToBag(
                                    {Notification(b.user_id, "entry", b.area_id, 0)})]
                          /\ BagCardinality(r.d.notifs) = BagCardinality(notifs) + 1
                     [] b.status = "Active" ->
                          r.f.res = "AlreadyCheckedIn" /\ r.d = DB
                     [] OTHER ->
                          r.f.res = "InvalidState" /\ r.d = DB

\* a vehicle has been checked in some time ago: its booking is Active with
\* the stamp and the entry notification, and a second check-in is refused
C22_Witness ==
    \E id \in DOMAIN bookings :
        /\ InManagedArea(id)
        /\ bookings[id].status = "Active"
        /\ bookings[id].check_in_time # None
        /\ Get(bookings[id].check_in_time) < now
        /\ BagIn(Notification(bookings[id].user_id, "entry", "a1", 0), notifs)
        /\ Run(CheckInOf(id), DB, now).f.res = "AlreadyCheckedIn"
        /\ \E j \in DOMAIN bookings :
              bookings[j].status \in TerminalStatuses /\ InManagedArea(j)

Managers == {"mgr", "mgr2"}

\* C23: a check-in or check-out by a manager of another area than the
\* booking's is answered Unauthorized and changes nothing in the store,
\* whatever the booking's status and whichever of its two tokens is used.
C23_OutOfScopeUnauthorized ==
    \A id \in DOMAIN bookings, m \in Managers :
        \A token \in {bookings[id].booking_token, bookings[id].exit_token} :
            LET r == Run(VerifyRequest(m, token, bookings[id].vehicle_number), DB, now)
            IN  ManagedAreaId(m) # bookings[id].area_id
                    => r.f.res = "Unauthorized" /\ r.d = DB

\* a parked vehicle in a1 and a booking of a2: the manager of a2 is refused
\* at the first (exit token), the manager of a1 at the second (entry token)
C23_Witness ==
    \E i \in DOMAIN bookings, j \in DOMAIN bookings :
        /\ bookings[i].area_id = "a1" /\ bookings[i].status = "Active"
        /\ bookings[j].area_id = "a2" /\ bookings[j].status = "Confirmed"
        /\ Run(VerifyRequest("mgr2", bookings[i].exit_token,
                             bookings[i].vehicle_number), DB, now).f.res = "Unauthorized"
        /\ Run(VerifyRequest("mgr", bookings[j].booking_token,
                             bookings[j].vehicle_number), DB, now).f.res = "Unauthorized"
        /\ Run(CheckOutOf(i), DB, now).f.res = "CheckedOut"

\* C24: a check-out of a booking of the manager's area with the right vehicle
\* and exit token completes an Active booking: status Completed,
\* check_out_time stamped, the occupied counter of the area lowered by the
\* number of slots of the booking, everything else about other bookings
\* and areas as before.  On a Confirmed or Pending Payment booking it answers
\* NotYetActive, and in every status but Active the bookings and the
\* occupied counters are unchanged.
C24_CheckOut ==
    \A id \in DOMAIN bookings :
        InManagedArea(id) =>
            LET b == bookings[id]
                r == Run(CheckOutOf(id), DB, now)
            IN  IF b.status = "Active"
                THEN /\ r.f.res = "CheckedOut"
                     /\ r.d.bookings[id].status = "Completed"
                     /\ r.d.bookings[id].check_out_time = Some(now)
                     /\ r.d.occupied =
                            [occupied EXCEPT ![b.area_id] = @ - Len(b.slot_ids)]
                     /\ \A j \in DOMAIN bookings \ {id} : r.d.bookings[j] = bookings[j]
                     /\ DOMAIN r.d.bookings = DOMAIN bookings
                ELSE /\ r.f.res # "CheckedOut"
                     /\ b.status \in {"Confirmed", "Pending Payment"}
                            => r.f.res = "NotYetActive"
                     /\ r.d.bookings = bookings
                     /\ r.d.occupied = occupied

\* the two-slot booking has just been checked out: it is Completed and its
\* two spots are released, while u1's vehicle is still parked
C24_Witness ==
    /\ procs[1].op = "verify"
    /\ procs[1].res = "CheckedOut"
    /\ 2 \in DOMAIN bookings
    /\ bookings[2].status = "Completed"
    /\ bookings[2].check_out_time = Some(now)
    /\ bookings[2].spots = 2
    /\ bookings[1].status = "Active"
    /\ occupied["a1"] = 1

\* seconds in one tick of the clock
TickSeconds == 3600 \div Hour

\* the smallest number of whole hours that covers the given seconds
HoursCovering(seconds) == CHOOSE n \in 0..seconds : n * 3600 >= seconds /\ (n = 0 \/ (n - 1) * 3600 < seconds)

\* the hourly rate of a booking: the base price of the area per slot, half of
\* it for a bike slot
HourlyRate(b) ==
    LET bikes == Cardinality({i \in DOMAIN b.slot_ids : IsBikeSlot(b.slot_ids[i])})
        cars == Len(b.slot_ids) - bikes
    IN  cars * AreaPrice(b.area_id) + bikes * (AreaPrice(b.area_id) \div 2)

C26_CancelByOwner ==
    \A id \in DOMAIN bookings :
        LET b == bookings[id]
            r == Run(CancelRequest(b.user_id, id), DB, now)
            released == [occupied EXCEPT ![b.area_id] = @ - b.spots]
        IN  CASE b.status = "Pending Payment" ->
                   /\ DOMAIN r.d.bookings = DOMAIN bookings \ {id}
                   /\ \A j \in DOMAIN r.d.bookings : r.d.bookings[j] = bookings[j]
                   /\ r.d.occupied = released
              [] b.status = "Confirmed" ->
                   /\ DOMAIN r.d.bookings = DOMAIN bookings
                   /\ r.d.bookings[id].status = "Cancelled (User)"
                   /\ r.d.bookings[id].refund_amount # None
                   /\ 10 * Get(r.d.bookings[id].refund_amount) = 9 * b.amount
                   /\ b.amount = 100 * Rupee
                          => r.d.bookings[id].refund_amount = Some(90 * Rupee)
                   /\ \A j \in DOMAIN bookings \ {id} : r.d.bookings[j] = bookings[j]
                   /\ r.d.occupied = released
              [] OTHER ->
                   /\ r.f.res = "InvalidState"
                   /\ r.d.bookings = bookings
                   /\ r.d.occupied = occupied

\* u1 has just cancelled the paid booking of amount 100 (one hour and four
\* more at rate 20): refund 90, its spot released
C26_Witness ==
    /\ procs[1].op = "cancel"
    /\ procs[1].res = "ok"
    /\ bookings[1].status = "Cancelled (User)"
    /\ bookings[1].amount = 100 * Rupee
    /\ bookings[1].refund_amount = Some(90 * Rupee)
    /\ 2 \in DOMAIN bookings
    /\ occupied["a1"] = 2

\* the other live bookings that share a slot with booking id and lie in the
\* h hours after its end
InTheWay(id, h) ==
    {j \in DOMAIN bookings \ {id} :
        /\ bookings[j].area_id = bookings[id].area_id
        /\ bookings[j].status \in {"Active", "Pending Payment", "Confirmed"}
        /\ \E x \in DOMAIN bookings[j].slot_ids, y \in DOMAIN bookings[id].slot_ids :
               bookings[j].slot_ids[x] = bookings[id].slot_ids[y]
        /\ bookings[j].start_time < bookings[id].end_time + h * Hour
        /\ bookings[j].end_time > bookings[id].end_time}

\* C27: an extension by h hours is answered CollisionOnExtend and changes
\* nothing if another live booking of the area shares a slot and lies in the
\* added hours; otherwise end_time moves h hours on, duration grows by h and
\* amount by h times the hourly rate of the slots, and nothing else changes
\* (status, start_time, slots, other bookings, the occupied counters).
C27_Extend ==
    \A id \in DOMAIN bookings, h \in {1, 2} :
        LET b == bookings[id]
            r == Run(ExtendRequest(b.user_id, id, h), DB, now)
        IN  IF InTheWay(id, h) # {}
            THEN r.f.res = "CollisionOnExtend" /\ r.d = DB
            ELSE r.d = [DB EXCEPT !.bookings[id] =
                            [b EXCEPT !.end_time = @ + h * Hour,
                                      !.duration = @ + h,
                                      !.amount = @ + h * HourlyRate(b)]]

\* a booking has been extended from one hour to two, and a booking of the
\* other area is still there
C27_Witness ==
    \E i \in DOMAIN bookings, j \in DOMAIN bookings :
        /\ bookings[i].duration = 2
        /\ bookings[i].end_time = bookings[i].start_time + 2 * Hour
        /\ bookings[i].amount = 2 * HourlyRate(bookings[i])
        /\ bookings[i].status = "Confirmed"
        /\ bookings[j].area_id # bookings[i].area_id

\* the bookings a no-show sweep of the given area ("" for all areas) is to
\* expire
Due(area) ==
    {id \in DOMAIN bookings :
        /\ bookings[id].status = "Confirmed"
        /\ bookings[id].grace_period_end < now
        /\ (area = "" \/ bookings[id].area_id = area)}

\* the spots held in area a by the bookings of the set ids
SpotsHeld(ids, a) ==
    LET RECURSIVE Sum(_)
        Sum(S) == IF S = {} THEN 0
                  ELSE LET x == CHOOSE y \in S : TRUE
                       IN  bookings[x].spots + Sum(S \ {x})
    IN  Sum({id \in ids : bookings[id].area_id = a})

\* C28: a no-show sweep turns every Confirmed booking whose grace period has
\* passed (of the given area, when one is given) into Cancelled (No Show)
\* with refund_amount nine tenths of its amount and releases its spots; every
\* other booking is left as it was.
C28_NoShowSweep ==
    \A area \in {"", "a1"} :
        LET r == Run(SweepRequest(area, FALSE), DB, now)
        IN  /\ DOMAIN r.d.bookings = DOMAIN bookings
            /\ \A id \in DOMAIN bookings :
                   IF id \in Due(area)
                   THEN /\ r.d.bookings[id].status = "Cancelled (No Show)"
                        /\ r.d.bookings[id].refund_amount # None
                        /\ 10 * Get(r.d.bookings[id].refund_amount)
                               = 9 * bookings[id].amount
                   ELSE r.d.bookings[id] = bookings[id]
            /\ \A a \in AreaIds :
                   r.d.occupied[a] = occupied[a] - SpotsHeld(Due(area), a)

\* C29: when a no-show sweep has run, no booking in its scope is still
\* Confirmed with its grace period passed, whatever the slots of the expired
\* bookings are called.
C29_SweepLeavesNoneBehind ==
    \A area \in {"", "a1"} :
        LET r == Run(SweepRequest(area, FALSE), DB, now)
        IN  \A id \in DOMAIN r.d.bookings :
                ~ /\ r.d.bookings[id].status = "Confirmed"
                  /\ r.d.bookings[id].grace_period_end < now
                  /\ (area = "" \/ r.d.bookings[id].area_id = area)

\* the users who send requests about bookings
Callers == {"u1", "u2"}

\* C30: a cancel, an extension and a payment confirmation by a user who does
\* not own the booking are each answered NotFound and leave the bookings and
\* the occupied counters as they were.
C30_ForeignBookingNotFound ==
    \A id \in DOMAIN bookings, u \in Callers :
        u # bookings[id].user_id =>
            \A req \in {CancelRequest(u, id), ExtendRequest(u, id, 1), PayRequest(u, id)} :
                LET r == Run(req, DB, now)
                IN  /\ r.f.res = "NotFound"
                    /\ r.d.bookings = bookings
                    /\ r.d.occupied = occupied

\* C31: no two bookings share an entry token or an exit token, and no value
\* is the entry token of one booking and the exit token of that or another
\* booking.
C31_TokensUnique ==
    \A i \in DOMAIN bookings, j \in DOMAIN bookings :
        /\ bookings[i].booking_token # bookings[j].exit_token
        /\ i # j => /\ bookings[i].booking_token # bookings[j].booking_token
                    /\ bookings[i].exit_token # bookings[j].exit_token

\* C32: a booking's entry token checks it in at most once and its exit token
\* checks it out at most once: a booking that has been checked in before
\* (check_in_time is set) never becomes Active again, and one that has been
\* checked out before never becomes Completed again nor has its spots
\* released again.
C32_TokensOneTimeUse ==
    [][\A id \in DOMAIN bookings \cap DOMAIN bookings' :
          /\ (bookings[id].status # "Active" /\ bookings'[id].status = "Active")
                 => bookings[id].check_in_time = None
          /\ (bookings[id].status # "Completed" /\ bookings'[id].status = "Completed")
                 => bookings[id].check_out_time = None]_vars

\* C33: a payment confirmation changes no occupied counter, adds and removes
\* no booking, and writes no field of any booking but the status of the
\* booking it names.
C33_PayWritesStatusOnly ==
    \A u \in Shoppers, id \in 1..MaxBookings :
        LET r == Run(PayRequest(u, id), DB, now)
        IN  /\ r.d.occupied = occupied
            /\ DOMAIN r.d.bookings = DOMAIN bookings
            /\ \A j \in DOMAIN bookings :
                   r.d.bookings[j] =
                       [bookings[j] EXCEPT !.status =
                           IF j = id THEN r.d.bookings[j].status ELSE @]

\* a booking of two hours has been paid: it is Confirmed with its amount, its
\* window and its slot as created, its owner has the confirmation, and the
\* counter still holds its spot
C33_Witness ==
    \E id \in DOMAIN bookings :
        /\ bookings[id].status = "Confirmed"
        /\ BagIn(Notification(bookings[id].user_id, "confirmed", bookings[id].area_id, 0),
                 notifs)
        /\ bookings[id].amount = bookings[id].duration * HourlyRate(bookings[id])
        /\ bookings[id].duration = 2
        /\ occupied[bookings[id].area_id] = bookings[id].spots
        /\ Run(PayRequest(bookings[id].user_id, id), DB, now).d.bookings = bookings

\* C34: when the Creates that were submitted have all completed and the
\* bookings they stored are for different slots, the occupied counter of a1
\* has grown by the slot counts of all of them: no increment is lost.
C34_NoLostIncrement ==
    (/\ Idle
     /\ \A i, j \in DOMAIN bookings :
            i # j => Range(bookings[i].slot_ids) \cap Range(bookings[j].slot_ids) = {})
    => occupied["a1"] = LiveSpots(bookings, "a1")

\* C35: however a no-show sweep and a check-in of the same booking
\* interleave, a booking that is Active is not turned into Cancelled (No
\* Show) by the next step, and while a booking is Active its spots are still
\* counted in the occupied counter of its area.
C35_SweepSparesCheckedIn ==
    [][\A id \in DOMAIN bookings :
          /\ bookings[id].status = "Active"
                 => bookings'[id].status # "Cancelled (No Show)"
          /\ bookings'[id].status = "Active"
                 => occupied'[bookings[id].area_id] >= bookings[id].spots]_vars

\* C36: however a cancellation interleaves with a payment or a check-in of
\* the same booking, no step deletes a booking that is Confirmed or Active,
\* and no step sets an Active booking to Cancelled (User).
C36_CancelSeesCurrentStatus ==
    [][\A id \in DOMAIN bookings :
          /\ bookings[id].status \in {"Confirmed", "Active"}
                 => id \in DOMAIN bookings'
          /\ (bookings[id].status = "Active" /\ id \in DOMAIN bookings')
                 => bookings'[id].status # "Cancelled (User)"]_vars

\* C37: while pages that run the no-show sweep keep being requested, a
\* booking that is Confirmed after its grace period ended is eventually
\* checked in, cancelled by its owner, or Cancelled (No Show) with the
\* occupied counter of its area counting live bookings only.
C37_AbandonedReclaimed ==
    \A id \in {1, 2} :
        (/\ bookings[id].status = "Confirmed"
         /\ bookings[id].grace_period_end < now)
        ~> (\/ bookings[id].status \in {"Active", "Completed", "Cancelled (User)"}
            \/ /\ bookings[id].status = "Cancelled (No Show)"
               /\ occupied[bookings[id].area_id]
                      = LiveSpots(bookings, bookings[id].area_id))

\* both abandoned bookings were reclaimed by sweeps, the last one just now
C37_Witness ==
    /\ procs[1].op = "sweep"
    /\ \A id \in {1, 2} : bookings[id].status = "Cancelled (No Show)"
    /\ bookings[1].check_in_time = None
    /\ occupied["a1"] = 0

\* the level a slot name stands for: n for "L{n}-...", 1 for "B-01", "C-01"
NamedLevel(slot_id) ==
    IF Head(slot_id) = "L" THEN IntOf(Tail(Split(slot_id, "-")[1])) ELSE 1

\* C38: a no-show sweep that cancels one booking of one slot adds exactly
\* one notification for every user with a preference on the booking's area
\* and the level the slot's name stands for, and no other notification.
C38_NotifiesPreferenceHolders ==
    \A area \in {"", "a1"} :
        (/\ Idle
         /\ Cardinality(Due(area)) = 1
         /\ \A id \in Due(area) : Len(bookings[id].slot_ids) = 1)
        => LET r == Run(SweepRequest(area, FALSE), DB, now)
               b == bookings[CHOOSE id \in Due(area) : TRUE]
               holders == {p \in prefs : /\ p.area_id = b.area_id
                                         /\ p.level = NamedLevel(b.slot_ids[1])}
           IN  r.d.notifs
                   = notifs (+) SetToBag({Notification(p.user_id, "slot_free",
                                                       b.area_id, p.level) :
                                              p \in holders})

\* the form field sent by a client that names one slot twice
S_TWICE == S_L1C01 \o <<",", " ">> \o S_L1C01

\* C39: whatever slot_id string a booking form carries, every booking that
\* is stored afterwards has a non-empty slot_ids list without duplicates and
\* a spots field equal to the number of distinct slots it holds.
C39_SlotIdsDistinct ==
    \A raw \in {S_L1C01, S_PAIR, S_BLANK, S_TWICE} :
        LET r == Run(BookRequest("u1", "a1", TimeStr(0), 1, raw, T1, T2), DB, now)
        IN  \A id \in DOMAIN r.d.bookings :
                LET b == r.d.bookings[id]
                IN  /\ b.slot_ids # <<>>
                    /\ \A i, j \in 1..Len(b.slot_ids) :
                           i # j => b.slot_ids[i] # b.slot_ids[j]
                    /\ b.spots = Cardinality(Range(b.slot_ids))

\* C40: an extension that succeeds, for any number of hours a client can
\* send (negative and zero included), moves end_time strictly later, never
\* before start_time, and does not lower amount or duration.
C40_ExtendMovesForward ==
    \A id \in DOMAIN bookings, h \in {-2, -1, 0, 1, 2} :
        LET b == bookings[id]
            r == Run(ExtendRequest(b.user_id, id, h), DB, now)
        IN  r.f.res = "ok"
            => /\ r.d.bookings[id].end_time > b.end_time
               /\ r.d.bookings[id].end_time >= b.start_time
               /\ r.d.bookings[id].amount >= b.amount
               /\ r.d.bookings[id].duration >= b.duration

====
